---------------------------- MODULE Spec2Model ----------------------------
(***************************************************************************)
(* Pathways AI assistant: the Streamlit host (src/app.py) with its         *)
(* tool-call round loop and transcript reconstruction, and the thread      *)
(* bridge to the MCP stdio session (src/mcp_client.py).                    *)
(*                                                                         *)
(* Two specifications share the module:                                    *)
(*   Spec        the host: prompts, the round loop of one turn, persisting *)
(*               the turn, reconstructing the next turn's message list.    *)
(*   SpecClient  one MCPClient object: the background thread running the   *)
(*               session, the constructor waiting for readiness, caller    *)
(*               threads in call_tool, shutdown.                           *)
(***************************************************************************)
EXTENDS Integers, Sequences, FiniteSets, TLC

(***************************************************************************)
(* Program constants.                                                      *)
(***************************************************************************)
\* for _round in range(10)
MaxRounds == 10

(***************************************************************************)
(* Bounds of the model.                                                    *)
(***************************************************************************)
\* prompts submitted in one run
MaxTurns == 2
\* events the free environment produces over one run: chunks with content
\* the transport yields, failures of the transport, failures of tool calls
MaxEvents == 3
\* clicks on "Connect MCP server" in one run
MaxStarts == 1

\* Python's None
None == "<None>"

\* the text load_system_prompt returns
SYSTEM_PROMPT == "You are a helpful assistant"

\* what the user can type
Prompts == {"p", "q"}

\* the one conversation id make_conversation_id hands out at start-up
FirstConvId == "c1"

(***************************************************************************)
(* The model transport (OpenAI streaming chat completion) is an opaque     *)
(* input.  transport_kind is chosen once: "stub" always asks for one more  *)
(* tool call (the same delta in every round) and may stream text ahead of  *)
(* the call in the last round the loop allows; "free" yields any chunk of  *)
(* ChunkMenu, may fail, may end; its tool calls may fail (MaxEvents).      *)
(***************************************************************************)
TransportKinds == {"stub", "free"}

\* argument fragments the transport can stream
ArgFrags == {"{\"a\":", "1}"}

\* positional indices the transport tags tool-call deltas with
Indices == {0, 1}

\* the id the transport gives the call at an index
IdOf(i) == IF i = 0 THEN "a" ELSE "b"

\* a tool-call delta: id / function.name / function.arguments, None when absent
OpenDelta(i) == [kind |-> "tc", index |-> i, id |-> IdOf(i), name |-> "f", arguments |-> ""]
FragDelta(i, a) == [kind |-> "tc", index |-> i, id |-> None, name |-> None, arguments |-> a]
TextChunk == [kind |-> "text", content |-> "x"]
NoChoiceChunk == [kind |-> "nochoice"]

ChunkMenu ==
    {TextChunk, NoChoiceChunk}
        \cup {OpenDelta(i) : i \in Indices}
        \cup {FragDelta(0, a) : a \in ArgFrags}

\* what a tool execution can end in, seen from the round loop
ToolOutcomes == {"ok", "remote_raise", "timeout", "loop_closed"}

VARIABLES
    \* ---- st.session_state
    conversations,          \* conv id -> sequence of display entries
    current_conv_id,
    mcp_client,             \* None or "client"
    pending_prompt,         \* "_pending_prompt": None or the prompt a chip queued
    \* ---- locals of the script run that resolves a prompt
    pc,                     \* "idle" | "round" | "stream" | "tools" | "in_call" | "persist"
    active_prompt,
    llm_messages,
    turn_llm_sequence,
    collected_tool_calls,
    final_response_text,
    round,                  \* _round
    accumulated_text,
    accumulated_tcs,        \* dict in insertion order: sequence of [index, tc]
    exec_pos,               \* position of the tool loop in sorted(accumulated_tcs.keys())
    \* ---- environment and observation
    transport_kind,
    events_left,
    turns_started,
    requests,               \* create() calls issued in this turn
    start_messages,         \* llm_messages as reconstructed at the start of this turn
    dispatched,             \* indices handed to call_tool in this round, in dispatch order
    outcomes,               \* how each tool execution of this turn ended, in order
    escaped,                \* where an exception left the script run: "no" | "stream" | "parse" | "tool"
    received,               \* the chunks of this round's stream, in arrival order (SpecStream)
    starts,                 \* how often MCPClient(...) was constructed by the host
    start_errors            \* the st.error messages of get_mcp_client, in order

hostVars == <<conversations, current_conv_id, mcp_client, pending_prompt>>
turnVars == <<pc, active_prompt, llm_messages, turn_llm_sequence, collected_tool_calls,
              final_response_text, round, accumulated_text, accumulated_tcs, exec_pos>>
startVars == <<starts, start_errors>>
envVars == <<transport_kind, events_left, turns_started, requests, start_messages,
             dispatched, outcomes, escaped, received, startVars>>

appVars == <<hostVars, turnVars, envVars>>

(***************************************************************************)
(* One MCPClient object (src/mcp_client.py).                               *)
(***************************************************************************)
\* threads that call call_tool on the object, one call each
Callers == {1, 2}

\* the tool each caller asks for
ToolOf(c) == IF c = 1 THEN "f" ELSE "g"

\* the tools the server advertises
ServerTools == <<"f", "g">>

VARIABLES
    \* ---- fields of the object
    tools,                  \* _tools
    session,                \* _session: None or "session"
    loop,                   \* _loop: None or "loop"
    stop_event,             \* _stop_event: None, "clear" or "set"
    initialized,            \* _initialized.is_set()
    init_error,             \* _init_error: None or the exception
    \* ---- the background thread "mcp-session" and its event loop
    bg_pc,
    bg_exc,                 \* the exception propagating on the background thread
    loop_state,             \* "none" | "running" | "stopped" | "closed"
    stop_cb,                \* stop_event.set is scheduled on the loop
    future,                 \* future -> its state; the coroutine behind it knows its tool
    \* ---- the synchronous side
    ctor,                   \* __init__: "waiting" | "returned" | "raised_error" | "raised_timeout"
    call_pc,                \* caller -> "idle" | "submit" | "waiting" | "returned" | "raised"
    call_out,               \* caller -> what call_tool returned or raised
    sd_pc,                  \* shutdown(): "idle" | "schedule" | "join" | "returned" | "raised"
    \* ---- observation
    signals,                \* how often _initialized.set() ran
    errors_recorded         \* how often _init_error was assigned

fieldVars == <<tools, session, loop, stop_event, initialized, init_error>>
bgVars == <<bg_pc, bg_exc, loop_state, stop_cb, future>>
syncVars == <<ctor, call_pc, call_out, sd_pc>>
obsVars == <<signals, errors_recorded>>
clientVars == <<fieldVars, bgVars, syncVars, obsVars>>

VARIABLES
    \* ---- the server process: one get_segment_metrics call
    gm_pc,                  \* "idle" | "called" | "returned"
    gm_args,                \* [limit, offset] as the caller passed them
    gm_total,               \* the number of metrics the filters select
    gm_result,              \* the "metrics" of the output, by position
    \* ---- the server process: one StrapiClient.fetch_all call
    fa_pc,                  \* "idle" | "loop" | "returned" | "raised"
    fa_args,                \* [page_size, max_records]
    fa_page,                \* page
    fa_data,                \* all_data
    fa_meta,                \* pagination of the last response
    fa_requests,            \* pages requested so far
    fa_result               \* the list returned

gmVars == <<gm_pc, gm_args, gm_total, gm_result>>
faVars == <<fa_pc, fa_args, fa_page, fa_data, fa_meta, fa_requests, fa_result>>
serverVars == <<gmVars, faVars>>

vars == <<appVars, clientVars, serverVars>>

(***************************************************************************)
(* Messages in the provider's format (Python dicts: a missing key is a     *)
(* missing field).                                                         *)
(***************************************************************************)
SystemMsg(text) == [role |-> "system", content |-> text]
UserMsg(text) == [role |-> "user", content |-> text]
ToolMsg(id, text) == [role |-> "tool", tool_call_id |-> id, content |-> text]
AssistantMsg(text) == [role |-> "assistant", content |-> text]
AssistantCallsMsg(text, calls) == [role |-> "assistant", content |-> text, tool_calls |-> calls]

HasKey(d, k) == k \in DOMAIN d

\* Python truthiness of a str-or-None value
Truthy(v) == v # None /\ v # ""

\* x or y, for str-or-None values
Or(x, y) == IF Truthy(x) THEN x ELSE y

\* json.dumps({"error": msg})
JsonError(msg) == "{\"error\": \"" \o msg \o "\"}"

Last(s) == s[Len(s)]
ButLast(s) == SubSeq(s, 1, Len(s) - 1)

(***************************************************************************)
(* Transcript reconstruction (reconstruct_llm_messages).                   *)
(***************************************************************************)
\* variant: the assistant message alone, the recorded results left out
FallbackMessages_no_results(dm) ==
    IF HasKey(dm, "raw_tool_calls") /\ dm.raw_tool_calls # <<>>
    THEN <<AssistantCallsMsg(Or(dm.content, None), dm.raw_tool_calls)>>
    ELSE <<AssistantMsg(Or(dm.content, ""))>>

\* the else branch: one assistant message, then one tool message per entry
\* of dm.get("tool_calls", [])
FallbackMessages(dm) ==
    LET asst_msg ==
            IF HasKey(dm, "raw_tool_calls") /\ dm.raw_tool_calls # <<>>
            THEN AssistantCallsMsg(Or(dm.content, None), dm.raw_tool_calls)
            ELSE AssistantMsg(Or(dm.content, ""))
        recorded == IF HasKey(dm, "tool_calls") THEN dm.tool_calls ELSE <<>>
    IN  <<asst_msg>> \o
        [k \in 1..Len(recorded) |-> ToolMsg(recorded[k].call_id, recorded[k].result)]

\* variant: an assistant entry re-derived from its last message only
ExpandEntry_last_only(dm) ==
    IF dm.role = "user"
    THEN <<UserMsg(dm.content)>>
    ELSE IF HasKey(dm, "llm_sequence") /\ dm.llm_sequence # <<>>
         THEN <<Last(dm.llm_sequence)>>
         ELSE FallbackMessages(dm)

\* what one display entry contributes to the message list
ExpandEntry(dm) ==
    IF dm.role = "user"
    THEN <<UserMsg(dm.content)>>
    ELSE IF dm.role = "assistant"
         THEN IF HasKey(dm, "llm_sequence") /\ dm.llm_sequence # <<>>
              THEN dm.llm_sequence
              ELSE FallbackMessages(dm)
         ELSE <<>>

RECURSIVE ReplayHistory(_)
\* the for loop over conv["display_messages"]
ReplayHistory(display) ==
    IF display = <<>>
    THEN <<>>
    ELSE ExpandEntry(Head(display)) \o ReplayHistory(Tail(display))

reconstruct_llm_messages(display, new_user_prompt) ==
    <<SystemMsg(SYSTEM_PROMPT)>> \o ReplayHistory(display) \o <<UserMsg(new_user_prompt)>>

(***************************************************************************)
(* Streaming: one chunk folded into accumulated_text / accumulated_tcs.    *)
(***************************************************************************)
\* accumulated_tcs.keys(), in insertion order
Keys(tcs) == [k \in 1..Len(tcs) |-> tcs[k].index]

KeySet(tcs) == {tcs[k].index : k \in 1..Len(tcs)}

\* accumulated_tcs[i]
TcAt(tcs, i) == tcs[CHOOSE k \in 1..Len(tcs) : tcs[k].index = i]

\* variant: the keys in arrival order, unsorted
arrival_keys(tcs) == Keys(tcs)

\* sorted(accumulated_tcs.keys())
sorted_keys(tcs) == SortSeq(Keys(tcs), LAMBDA a, b : a < b)

\* variant: a fragment replaces the buffer instead of extending it
apply_tc_delta_overwrite(tcs, d) ==
    LET with_slot ==
            IF d.index \in KeySet(tcs)
            THEN tcs
            ELSE Append(tcs, [index |-> d.index, id |-> "", name |-> "", arguments |-> ""])
        k == CHOOSE j \in 1..Len(with_slot) : with_slot[j].index = d.index
        old == with_slot[k]
        new == [index |-> old.index,
                id |-> IF Truthy(d.id) THEN d.id ELSE old.id,
                name |-> IF Truthy(d.name) THEN old.name \o d.name ELSE old.name,
                arguments |-> IF Truthy(d.arguments) THEN d.arguments ELSE old.arguments]
    IN  [with_slot EXCEPT ![k] = new]

\* the body of "for tc_delta in delta.tool_calls"
apply_tc_delta(tcs, d) ==
    LET with_slot ==
            IF d.index \in KeySet(tcs)
            THEN tcs
            ELSE Append(tcs, [index |-> d.index, id |-> "", name |-> "", arguments |-> ""])
        k == CHOOSE j \in 1..Len(with_slot) : with_slot[j].index = d.index
        old == with_slot[k]
        new == [index |-> old.index,
                id |-> IF Truthy(d.id) THEN d.id ELSE old.id,
                name |-> IF Truthy(d.name) THEN old.name \o d.name ELSE old.name,
                arguments |-> IF Truthy(d.arguments)
                              THEN old.arguments \o d.arguments
                              ELSE old.arguments]
    IN  [with_slot EXCEPT ![k] = new]

\* the body of "for chunk in stream", on the pair <<accumulated_text, accumulated_tcs>>
consume_chunk(text, tcs, chunk) ==
    IF chunk.kind = "nochoice"
    THEN <<text, tcs>>
    ELSE IF chunk.kind = "text"
         THEN <<IF Truthy(chunk.content) THEN text \o chunk.content ELSE text, tcs>>
         ELSE <<text, apply_tc_delta(tcs, chunk)>>

(***************************************************************************)
(* Finalising and executing the tool calls of a round.                     *)
(***************************************************************************)
\* one element of raw_tc_list
raw_tc(tc) ==
    [id |-> tc.id, type |-> "function",
     function |-> [name |-> tc.name, arguments |-> tc.arguments]]

\* variant: only the first call is listed
raw_tc_list_first(tcs) ==
    LET order == sorted_keys(tcs)
    IN  [k \in 1..1 |-> raw_tc(TcAt(tcs, order[k]))]

raw_tc_list(tcs) ==
    LET order == sorted_keys(tcs)
    IN  [k \in 1..Len(order) |-> raw_tc(TcAt(tcs, order[k]))]

\* variant: the streamed text is stored as it is, the empty string included
round_asst_msg_keeps_empty(text, tcs) == AssistantCallsMsg(text, raw_tc_list(tcs))

round_asst_msg(text, tcs) == AssistantCallsMsg(Or(text, None), raw_tc_list(tcs))

RECURSIVE lstrip(_)
lstrip(text) ==
    IF Len(text) > 0 /\ SubSeq(text, 1, 1) = " "
    THEN lstrip(SubSeq(text, 2, Len(text)))
    ELSE text

RECURSIVE rstrip(_)
rstrip(text) ==
    IF Len(text) > 0 /\ SubSeq(text, Len(text), Len(text)) = " "
    THEN rstrip(SubSeq(text, 1, Len(text) - 1))
    ELSE text

\* str.strip()
strip(text) == lstrip(rstrip(text))

\* a parsed JSON object: its set of <<key, value>> pairs
EmptyArgs == {}

\* the decimal digits
Digits == <<"0", "1", "2", "3", "4", "5", "6", "7", "8", "9">>

IsDigit(ch) == \E d \in 1..Len(Digits) : Digits[d] = ch

DigitValue(ch) == (CHOOSE d \in 1..Len(Digits) : Digits[d] = ch) - 1

\* the character of t at position k, "" past the end
Ch(t, k) == IF k >= 1 /\ k <= Len(t) THEN SubSeq(t, k, k) ELSE ""

\* the first position at or after k that holds no blank
RECURSIVE skip_ws(_, _)
skip_ws(t, k) == IF Ch(t, k) = " " THEN skip_ws(t, k + 1) ELSE k

\* the position of the next double quote at or after k, 0 when there is none
RECURSIVE find_quote(_, _)
find_quote(t, k) ==
    IF k > Len(t) THEN 0
    ELSE IF Ch(t, k) = "\"" THEN k ELSE find_quote(t, k + 1)

\* the digits from position k on: the position after them and their value
RECURSIVE scan_int(_, _, _)
scan_int(t, k, acc) ==
    IF IsDigit(Ch(t, k))
    THEN scan_int(t, k + 1, acc * 10 + DigitValue(Ch(t, k)))
    ELSE [end |-> k, value |-> acc]

JSONDecodeError == [ok |-> FALSE, value |-> EmptyArgs]

\* the members of an object from position k on (k at the opening quote of a
\* key); a repeated key keeps its last value, as in a Python dict.  Each
\* step of the scan hands the positions it found to the next as values.
RECURSIVE parse_members(_, _, _)

\* after a value that ends before position n: a comma and the next member,
\* or the closing brace and nothing but blanks
member_end(t, n, acc) ==
    IF Ch(t, n) = ","
    THEN CHOOSE r \in {parse_members(t, k, acc) : k \in {skip_ws(t, n + 1)}} : TRUE
    ELSE IF Ch(t, n) = "}" /\ skip_ws(t, n + 1) > Len(t)
         THEN [ok |-> TRUE, value |-> acc]
         ELSE JSONDecodeError

\* the value at position v was scanned as num: digits, no leading zero
member_number(t, key, v, num, acc) ==
    IF num.end = v \/ (Ch(t, v) = "0" /\ num.end > v + 1) THEN JSONDecodeError
    ELSE CHOOSE r \in {member_end(t, n, a) :
                           n \in {skip_ws(t, num.end)},
                           a \in {{pr \in acc : pr[1] # key} \cup {<<key, num.value>>}}} : TRUE

\* the value that starts at position v
member_value(t, key, v, acc) ==
    CHOOSE r \in {member_number(t, key, v, num, acc) : num \in {scan_int(t, v, 0)}} : TRUE

\* the colon expected at position colon, then the value
member_colon(t, key, colon, acc) ==
    IF Ch(t, colon) # ":" THEN JSONDecodeError
    ELSE CHOOSE r \in {member_value(t, key, v, acc) : v \in {skip_ws(t, colon + 1)}} : TRUE

\* the key between the quotes at k and e
member_key(t, k, e, acc) ==
    IF e = 0 THEN JSONDecodeError
    ELSE CHOOSE r \in {member_colon(t, key, colon, acc) :
                           key \in {SubSeq(t, k + 1, e - 1)},
                           colon \in {skip_ws(t, e + 1)}} : TRUE

parse_members(t, k, acc) ==
    IF Ch(t, k) # "\"" THEN JSONDecodeError
    ELSE CHOOSE r \in {member_key(t, k, e, acc) : e \in {find_quote(t, k + 1)}} : TRUE

\* json.loads on argument texts: an object whose members are "key": digits,
\* blanks allowed between tokens; every other text the transport of the model
\* can stream is no JSON document and raises JSONDecodeError
json_document(text) ==
    LET open == skip_ws(text, 1)
        first == skip_ws(text, open + 1)
    IN  IF Ch(text, open) # "{" THEN JSONDecodeError
        ELSE IF Ch(text, first) = "}"
             THEN IF skip_ws(text, first + 1) > Len(text)
                  THEN [ok |-> TRUE, value |-> EmptyArgs]
                  ELSE JSONDecodeError
             ELSE CHOOSE r \in {parse_members(text, k, {}) : k \in {first}} : TRUE

\* json.loads of the value of its argument
json_loads(s) == CHOOSE r \in {json_document(text) : text \in {s}} : TRUE

\* variant: the decode error is not caught
parse_arguments_uncaught(buffer) ==
    IF strip(buffer) # ""
    THEN IF json_loads(buffer).ok
         THEN [raised |-> FALSE, value |-> json_loads(buffer).value]
         ELSE [raised |-> TRUE, value |-> EmptyArgs]
    ELSE [raised |-> FALSE, value |-> EmptyArgs]

\* tool_args of the tool loop:
\* try: json.loads(...) if tc["arguments"].strip() else {}
\* except json.JSONDecodeError: {}
parse_arguments(buffer) ==
    IF strip(buffer) # ""
    THEN IF json_loads(buffer).ok
         THEN [raised |-> FALSE, value |-> json_loads(buffer).value]
         ELSE [raised |-> FALSE, value |-> EmptyArgs]
    ELSE [raised |-> FALSE, value |-> EmptyArgs]

\* "\n".join(parts) if parts else ""
RECURSIVE join_parts(_)
join_parts(parts) ==
    IF parts = <<>> THEN ""
    ELSE IF Len(parts) = 1 THEN parts[1]
         ELSE parts[1] \o "\n" \o join_parts(Tail(parts))

\* future.result(timeout=120) inside try/except Exception of call_tool:
\* fut is [kind |-> "result", text] | [kind |-> "exception", msg] | [kind |-> "timeout"]
call_tool_wait(fut) ==
    IF fut.kind = "result"
    THEN [raised |-> FALSE, value |-> fut.text]
    ELSE IF fut.kind = "exception"
         THEN [raised |-> FALSE, value |-> JsonError(fut.msg)]
         ELSE [raised |-> FALSE, value |-> JsonError("")]

\* the future a tool outcome of the round loop stands for
FutureOf(outcome) ==
    IF outcome = "ok" THEN [kind |-> "result", text |-> join_parts(<<"r">>)]
    ELSE IF outcome = "remote_raise" THEN [kind |-> "exception", msg |-> "boom"]
    ELSE [kind |-> "timeout"]

\* mcp.call_tool(tool_name, tool_args) as the round loop sees it
host_call_tool(mcp, outcome) ==
    IF mcp = None
    THEN [raised |-> TRUE, value |-> "'NoneType' object has no attribute 'call_tool'"]
    ELSE IF outcome = "loop_closed"
         THEN [raised |-> TRUE, value |-> "Event loop is closed"]
         ELSE call_tool_wait(FutureOf(outcome))

\* variant: no try/except around mcp.call_tool
run_tool_uncaught(mcp, outcome) ==
    LET r == host_call_tool(mcp, outcome)
    IN  [result_text |-> r.value, is_error |-> FALSE, escaped |-> r.raised]

\* try: result_text = mcp.call_tool(...) except Exception: ...
run_tool(mcp, outcome) ==
    LET r == host_call_tool(mcp, outcome)
    IN  IF r.raised
        THEN [result_text |-> JsonError(r.value), is_error |-> TRUE, escaped |-> FALSE]
        ELSE [result_text |-> r.value, is_error |-> FALSE, escaped |-> FALSE]

tc_record(tc, tool_args, res) ==
    [call_id |-> tc.id, name |-> tc.name, arguments |-> tool_args,
     result |-> res.result_text, is_error |-> res.is_error]

\* variant: the tool message tagged with the tool's name
tool_result_msg_by_name(tc, res) == ToolMsg(tc.name, res.result_text)

tool_result_msg(tc, res) == ToolMsg(tc.id, res.result_text)

\* variant: a cap of one round more
after_continue_late(r) == IF r + 1 < MaxRounds + 1 THEN "round" ELSE "persist"

\* the for statement after an iteration that ended in "continue"
after_continue(r) == IF r + 1 < MaxRounds THEN "round" ELSE "persist"

(***************************************************************************)
(* Initial state: the script's session-state initialisation, no prompt     *)
(* pending, one empty conversation, no MCP client held.                    *)
(***************************************************************************)
Disp == conversations[current_conv_id]

InitHost ==
    /\ current_conv_id = FirstConvId
    /\ conversations = (FirstConvId :> <<>>)
    /\ mcp_client = None
    /\ pending_prompt = None

InitTurn ==
    /\ pc = "idle"
    /\ active_prompt = None
    /\ llm_messages = <<>>
    /\ turn_llm_sequence = <<>>
    /\ collected_tool_calls = <<>>
    /\ final_response_text = ""
    /\ round = 0
    /\ accumulated_text = ""
    /\ accumulated_tcs = <<>>
    /\ exec_pos = 1

InitEnv ==
    /\ transport_kind \in TransportKinds
    /\ events_left = MaxEvents
    /\ turns_started = 0
    /\ requests = 0
    /\ start_messages = <<>>
    /\ dispatched = <<>>
    /\ outcomes = <<>>
    /\ escaped = "no"
    /\ received = <<>>
    /\ starts = 0
    /\ start_errors = <<>>

\* a future not yet created, a call that has not finished
NoFuture == [kind |-> "none"]
NoOutcome == [raised |-> FALSE, value |-> None]

\* the fields as __init__ leaves them before it starts the thread
InitClient ==
    /\ tools = <<>>
    /\ session = None
    /\ loop = None
    /\ stop_event = None
    /\ initialized = FALSE
    /\ init_error = None
    /\ bg_pc = "start"
    /\ bg_exc = None
    /\ loop_state = "none"
    /\ stop_cb = FALSE
    /\ future = [c \in Callers |-> NoFuture]
    /\ ctor = "waiting"
    /\ call_pc = [c \in Callers |-> "idle"]
    /\ call_out = [c \in Callers |-> NoOutcome]
    /\ sd_pc = "idle"
    /\ signals = 0
    /\ errors_recorded = 0

\* the application; its client object is not exercised
\* get_segment_metrics: "limit: int = 50", "limit = min(limit, 100)"
DefaultLimit == 50
MaxLimit == 100

\* the server process with no tool call made: the arguments are the
\* defaults of the signatures, the pagination is what .get() falls back to
InitServer ==
    /\ gm_pc = "idle"
    /\ gm_args = [limit |-> DefaultLimit, offset |-> 0]
    /\ gm_total = 0
    /\ gm_result = <<>>
    /\ fa_pc = "idle"
    /\ fa_args = [page_size |-> 1, max_records |-> 1]
    /\ fa_page = 1
    /\ fa_data = <<>>
    /\ fa_meta = [total |-> 0, page_count |-> 1]
    /\ fa_requests = 0
    /\ fa_result = <<>>

Init == InitHost /\ InitTurn /\ InitEnv /\ InitClient /\ InitServer

(***************************************************************************)
(* Host actions.                                                           *)
(***************************************************************************)
\* how MCPClient(env=env) can end: it returns the object, or it raises the
\* recorded start failure, or it raises after its 60 s wait
CtorOutcomes == {"returned", "raised_error", "raised_timeout"}

\* variant: the object is kept in the slot although its constructor raised
get_mcp_client_keeps_broken(slot, ctor_result) ==
    IF slot = None
    THEN [client |-> "client", constructed |-> TRUE,
          errors |-> IF ctor_result = "returned" THEN <<>>
                     ELSE <<"Failed to start MCP server: " \o ctor_result>>]
    ELSE [client |-> slot, constructed |-> FALSE, errors |-> <<>>]

\* get_mcp_client(): the slot afterwards (also the value returned), whether
\* MCPClient(...) was constructed, and what st.error showed
get_mcp_client(slot, ctor_result) ==
    IF slot = None
    THEN IF ctor_result = "returned"
         THEN [client |-> "client", constructed |-> TRUE, errors |-> <<>>]
         ELSE [client |-> None, constructed |-> TRUE,
               errors |-> <<"Failed to start MCP server: " \o ctor_result>>]
    ELSE [client |-> slot, constructed |-> FALSE, errors |-> <<>>]

\* openai_tools = mcp.get_openai_tools() if mcp is not None else []
openai_tools(mcp) == IF mcp # None THEN ServerTools ELSE <<>>

\* "Connect MCP server" button, shown while no client is held:
\* get_mcp_client(), st.rerun()
ConnectMCP ==
    /\ UNCHANGED <<serverVars, clientVars, received, pending_prompt>>
    /\ pending_prompt = None
    /\ pc = "idle"
    /\ mcp_client = None
    /\ starts < MaxStarts
    /\ \E ctor_result \in CtorOutcomes :
           LET r == get_mcp_client(mcp_client, ctor_result)
           IN  /\ mcp_client' = r.client
               /\ starts' = starts + (IF r.constructed THEN 1 ELSE 0)
               /\ start_errors' = start_errors \o r.errors
    /\ UNCHANGED <<conversations, current_conv_id, turnVars, transport_kind,
                   events_left, turns_started, requests, start_messages, dispatched,
                   outcomes, escaped>>

\* variant: the user entry takes the place of the last stored entry
with_user_entry_overwrite(display, prompt) ==
    IF display = <<>>
    THEN <<[role |-> "user", content |-> prompt]>>
    ELSE [display EXCEPT ![Len(display)] = [role |-> "user", content |-> prompt]]

\* variant: the user entry is appended whatever the display ends with
with_user_entry_always(display, prompt) ==
    Append(display, [role |-> "user", content |-> prompt])

\* display_messages after "append the new user message (if not already there)"
with_user_entry(display, prompt) ==
    IF display = <<>> \/ Last(display).content # prompt \/ Last(display).role # "user"
    THEN Append(display, [role |-> "user", content |-> prompt])
    ELSE display

\* prompts are interchangeable: the first one of a run is "p"
TypedPrompts == IF turns_started = 0 THEN {"p"} ELSE Prompts

\* the script run with an active prompt, up to the first iteration of the
\* round loop; pending_prompt is consumed
StartTurn(p) ==
    /\ UNCHANGED <<serverVars, clientVars, received, startVars>>
    /\ pc = "idle"
    /\ pending_prompt' = None
    /\ LET display == with_user_entry(Disp, p)
           conv_without_last == ButLast(display)
           messages == reconstruct_llm_messages(conv_without_last, p)
       IN  /\ conversations' = [conversations EXCEPT ![current_conv_id] = display]
           /\ llm_messages' = messages
           /\ start_messages' = messages
    /\ active_prompt' = p
    /\ collected_tool_calls' = <<>>
    /\ turn_llm_sequence' = <<>>
    /\ final_response_text' = ""
    /\ round' = 0
    /\ pc' = "round"
    /\ turns_started' = turns_started + 1
    /\ requests' = 0
    /\ dispatched' = <<>>
    /\ outcomes' = <<>>
    /\ escaped' = "no"
    /\ UNCHANGED <<current_conv_id, mcp_client, accumulated_text, accumulated_tcs,
                   exec_pos, transport_kind, events_left>>

\* a prompt typed into chat_input
SubmitPrompt(p) ==
    /\ pending_prompt = None
    /\ turns_started < MaxTurns
    /\ p \in TypedPrompts
    /\ StartTurn(p)

\* a suggestion chip, shown while the conversation is empty: the user entry is
\* appended, the prompt is queued and the script is rerun
ChipSelected(p) ==
    /\ UNCHANGED <<serverVars, clientVars, received, startVars>>
    /\ pc = "idle"
    /\ pending_prompt = None
    /\ Disp = <<>>
    /\ turns_started < MaxTurns
    /\ p \in TypedPrompts
    /\ conversations' = [conversations EXCEPT ![current_conv_id] =
                             Append(@, [role |-> "user", content |-> p])]
    /\ pending_prompt' = p
    /\ UNCHANGED <<current_conv_id, mcp_client, turnVars, envVars>>

\* the rerun after a chip: the queued prompt is popped and becomes the active
\* prompt
PendingPrompt ==
    /\ pending_prompt # None
    /\ StartTurn(pending_prompt)

(***************************************************************************)
(* The round loop.                                                         *)
(***************************************************************************)
\* openai_client.chat.completions.create raises: st.error, break
CreateRaises ==
    /\ UNCHANGED <<serverVars, clientVars, received, startVars>>
    /\ pc = "round"
    /\ transport_kind = "free"
    /\ events_left > 0
    /\ events_left' = events_left - 1
    /\ requests' = requests + 1
    /\ pc' = "persist"
    /\ UNCHANGED <<hostVars, active_prompt, llm_messages, turn_llm_sequence,
                   collected_tool_calls, final_response_text, round, accumulated_text,
                   accumulated_tcs, exec_pos, transport_kind, turns_started,
                   start_messages, dispatched, outcomes, escaped>>

\* create returns a stream
CreateStream ==
    /\ UNCHANGED <<serverVars, clientVars, startVars>>
    /\ pc = "round"
    /\ requests' = requests + 1
    /\ received' = <<>>
    /\ accumulated_text' = ""
    /\ accumulated_tcs' = <<>>
    /\ pc' = "stream"
    /\ UNCHANGED <<hostVars, active_prompt, llm_messages, turn_llm_sequence,
                   collected_tool_calls, final_response_text, round, exec_pos,
                   transport_kind, events_left, turns_started,
                   start_messages, dispatched, outcomes, escaped>>

\* the chunks the transport may yield next
NextChunks ==
    IF transport_kind = "stub"
    THEN IF accumulated_tcs = <<>>
         THEN {OpenDelta(0)} \cup
              (IF round = MaxRounds - 1 /\ accumulated_text = "" THEN {TextChunk} ELSE {})
         ELSE {}
    ELSE IF transport_kind = "free" /\ events_left > 0 THEN ChunkMenu ELSE {NoChoiceChunk}

\* one iteration of "for chunk in stream" on the given chunk
StreamStep(chunk) ==
    /\ pc = "stream"
    /\ LET acc == consume_chunk(accumulated_text, accumulated_tcs, chunk)
       IN  /\ accumulated_text' = acc[1]
           /\ accumulated_tcs' = acc[2]
    /\ UNCHANGED <<hostVars, pc, active_prompt, llm_messages, turn_llm_sequence,
                   collected_tool_calls, final_response_text, round, exec_pos,
                   transport_kind, turns_started, requests, start_messages,
                   dispatched, outcomes, escaped>>

\* the transport yields a chunk
StreamChunk ==
    /\ UNCHANGED <<serverVars, clientVars, received, startVars>>
    /\ \E chunk \in NextChunks :
        /\ StreamStep(chunk)
        /\ events_left' = IF transport_kind = "free" /\ chunk # NoChoiceChunk
                           THEN events_left - 1
                           ELSE events_left

\* the script run is over: its locals are gone (turn_llm_sequence,
\* start_messages and requests keep the last turn's values for observation)
RunEnds ==
    /\ pc' = "idle"
    /\ active_prompt' = None
    /\ llm_messages' = <<>>
    /\ collected_tool_calls' = <<>>
    /\ final_response_text' = ""
    /\ round' = 0
    /\ accumulated_text' = ""
    /\ accumulated_tcs' = <<>>
    /\ exec_pos' = 1
    /\ dispatched' = <<>>

\* the iterator raises while the stream is consumed: nothing catches it, the
\* script run ends there
StreamRaises ==
    /\ UNCHANGED <<serverVars, clientVars, received, startVars>>
    /\ pc = "stream"
    /\ transport_kind = "free"
    /\ events_left > 0
    /\ events_left' = events_left - 1
    /\ escaped' = "stream"
    /\ RunEnds
    /\ UNCHANGED <<hostVars, turn_llm_sequence, transport_kind, turns_started,
                   requests, start_messages, outcomes>>

\* variant: only calls that carry an id count
has_tool_calls_with_id(tcs) == \E k \in 1..Len(tcs) : tcs[k].id # ""

\* if accumulated_tcs:
has_tool_calls(tcs) == tcs # <<>>

\* the stream ends with tool calls accumulated: the assistant message of the
\* round is appended and the tool loop starts
StreamEndsWithCalls ==
    /\ UNCHANGED <<serverVars, clientVars, received, startVars>>
    /\ pc = "stream"
    /\ has_tool_calls(accumulated_tcs)
    /\ LET msg == round_asst_msg(accumulated_text, accumulated_tcs)
       IN  /\ llm_messages' = Append(llm_messages, msg)
           /\ turn_llm_sequence' = Append(turn_llm_sequence, msg)
    /\ exec_pos' = 1
    /\ dispatched' = <<>>
    /\ pc' = "tools"
    /\ UNCHANGED <<hostVars, active_prompt, collected_tool_calls, final_response_text,
                   round, accumulated_text, accumulated_tcs, transport_kind, events_left,
                   turns_started, requests, start_messages, outcomes, escaped>>

\* variant: the final assistant message is put at the head of the sequence
with_final_first(sequence, text) == <<AssistantMsg(text)>> \o sequence

\* "Record the final assistant message in the sequence too"
with_final(sequence, text) == Append(sequence, AssistantMsg(text))

\* the stream ends without tool calls: the final response, break
StreamEndsFinal ==
    /\ UNCHANGED <<serverVars, clientVars, received, startVars>>
    /\ pc = "stream"
    /\ ~has_tool_calls(accumulated_tcs)
    /\ transport_kind # "stub"
    /\ final_response_text' = accumulated_text
    /\ turn_llm_sequence' = with_final(turn_llm_sequence, accumulated_text)
    /\ pc' = "persist"
    /\ UNCHANGED <<hostVars, active_prompt, llm_messages, collected_tool_calls, round,
                   accumulated_text, accumulated_tcs, exec_pos, transport_kind,
                   events_left, turns_started, requests, start_messages,
                   dispatched, outcomes, escaped>>

\* the tool call the tool loop is at
CurrentIndex == sorted_keys(accumulated_tcs)[exec_pos]

CurrentTc == TcAt(accumulated_tcs, CurrentIndex)

\* tool_args is parsed, then mcp.call_tool is entered and the script blocks
\* in it
DispatchTool ==
    /\ UNCHANGED <<serverVars, clientVars, received, startVars>>
    /\ pc = "tools"
    /\ IF parse_arguments(CurrentTc.arguments).raised
       THEN /\ escaped' = "parse"
            /\ RunEnds
       ELSE /\ dispatched' = Append(dispatched, CurrentIndex)
            /\ pc' = "in_call"
            /\ UNCHANGED <<active_prompt, llm_messages, collected_tool_calls,
                           final_response_text, round, accumulated_text,
                           accumulated_tcs, exec_pos, escaped>>
    /\ UNCHANGED <<hostVars, turn_llm_sequence, transport_kind, events_left,
                   turns_started, requests, start_messages, outcomes>>

\* the outcomes the call can have
NextOutcomes ==
    IF mcp_client = None THEN {"no_client"}
    ELSE IF transport_kind = "free" /\ events_left > 0 THEN ToolOutcomes ELSE {"ok"}

\* the call ends: record, tool message, next call or next round
ToolReturns ==
    /\ UNCHANGED <<serverVars, clientVars, received, startVars>>
    /\ pc = "in_call"
    /\ \E outcome \in NextOutcomes :
        LET res == run_tool(mcp_client, outcome)
            tool_args == parse_arguments(CurrentTc.arguments).value
            msg == tool_result_msg(CurrentTc, res)
            last == exec_pos = Len(accumulated_tcs)
        IN  /\ events_left' = IF outcome \in {"ok", "no_client"}
                              THEN events_left
                              ELSE events_left - 1
            /\ outcomes' = Append(outcomes, outcome)
            /\ IF res.escaped
               THEN /\ escaped' = "tool"
                    /\ RunEnds
                    /\ UNCHANGED turn_llm_sequence
               ELSE /\ collected_tool_calls' =
                           Append(collected_tool_calls, tc_record(CurrentTc, tool_args, res))
                    /\ llm_messages' = Append(llm_messages, msg)
                    /\ turn_llm_sequence' = Append(turn_llm_sequence, msg)
                    /\ exec_pos' = exec_pos + 1
                    /\ round' = IF last THEN round + 1 ELSE round
                    /\ pc' = IF last THEN after_continue(round) ELSE "tools"
                    /\ UNCHANGED <<escaped, active_prompt, final_response_text,
                                   accumulated_text, accumulated_tcs, dispatched>>
    /\ UNCHANGED <<hostVars, transport_kind, turns_started, requests, start_messages>>

\* the assistant display entry of the turn
assistant_entry(text, records, sequence) ==
    [role |-> "assistant", content |-> text, tool_calls |-> records,
     llm_sequence |-> sequence]

\* "Persist the completed assistant turn"; the script run ends
Persist ==
    /\ UNCHANGED <<serverVars, clientVars, received, startVars, pending_prompt>>
    /\ pc = "persist"
    /\ conversations' =
           [conversations EXCEPT ![current_conv_id] =
               Append(@, assistant_entry(final_response_text, collected_tool_calls,
                                         turn_llm_sequence))]
    /\ RunEnds
    /\ UNCHANGED <<current_conv_id, mcp_client, turn_llm_sequence, transport_kind,
                   events_left, turns_started, requests, start_messages, outcomes,
                   escaped>>

Next ==
    \/ ConnectMCP
    \/ \E p \in Prompts : SubmitPrompt(p)
    \/ \E p \in Prompts : ChipSelected(p)
    \/ PendingPrompt
    \/ CreateRaises
    \/ CreateStream
    \/ StreamChunk
    \/ StreamRaises
    \/ StreamEndsWithCalls
    \/ StreamEndsFinal
    \/ DispatchTool
    \/ ToolReturns
    \/ Persist

Spec == Init /\ [][Next]_vars

\* every step of a script run that resolves a prompt
RunStep ==
    \/ CreateRaises
    \/ CreateStream
    \/ StreamChunk
    \/ StreamRaises
    \/ StreamEndsWithCalls
    \/ StreamEndsFinal
    \/ DispatchTool
    \/ ToolReturns
    \/ Persist

\* a script run keeps running: the transport's stream is finite and ends,
\* call_tool returns (its wait is bounded)
FairSpec == Spec /\ WF_vars(RunStep)

(***************************************************************************)
(* The host with its sidebar: a second conversation can be opened and the  *)
(* current conversation chosen between script runs; turns are resolved in  *)
(* whichever conversation is current.                                      *)
(***************************************************************************)
SecondConvId == "c2"

\* "New conversation": a fresh id becomes current, with an empty record
NewConversation ==
    /\ UNCHANGED <<serverVars, clientVars, received, startVars, pending_prompt>>
    /\ pending_prompt = None
    /\ pc = "idle"
    /\ SecondConvId \notin DOMAIN conversations
    /\ current_conv_id' = SecondConvId
    /\ conversations' = conversations @@ (SecondConvId :> <<>>)
    /\ UNCHANGED <<mcp_client, turnVars, transport_kind, events_left, turns_started,
                   requests, start_messages, dispatched, outcomes, escaped>>

\* a conversation button of the list: that conversation becomes current
SelectConversation(cid) ==
    /\ UNCHANGED <<serverVars, clientVars, received, startVars, pending_prompt>>
    /\ pending_prompt = None
    /\ pc = "idle"
    /\ cid \in DOMAIN conversations
    /\ cid # current_conv_id
    /\ current_conv_id' = cid
    /\ UNCHANGED <<conversations, mcp_client, turnVars, transport_kind, events_left,
                   turns_started, requests, start_messages, dispatched, outcomes,
                   escaped>>

NextConv ==
    \/ NewConversation
    \/ \E cid \in {FirstConvId, SecondConvId} : SelectConversation(cid)
    \/ Next

SpecConv == Init /\ [][NextConv]_vars

(***************************************************************************)
(* The host under a transport that streams argument fragments: a text      *)
(* split into three fragments, the same text in one fragment, a blank, and *)
(* fragments for a second index that may arrive in between.  The chunks of *)
(* a round are logged in received.  One turn is resolved.                  *)
(***************************************************************************)
\* chunks the transport of SpecStream yields over a run
MaxFrags == 4

\* {"a":1,"b":2} in one piece and split in three
WholeArgs == "{\"a\":1,\"b\":2}"
ArgParts == {"{\"a\":", "1,\"b\"", ":2}"}
Blank == " "

\* index 0 gets argument fragments only, index 1 is opened with its id and
\* may get one fragment
FragMenu ==
    {TextChunk, OpenDelta(1), FragDelta(1, "1}")}
        \cup {FragDelta(0, a) : a \in ArgParts \cup {WholeArgs, Blank}}

\* the transport yields a chunk, which is logged
StreamFragment ==
    /\ UNCHANGED <<serverVars, clientVars, startVars>>
    /\ transport_kind = "frag"
    /\ events_left > 0
    /\ \E chunk \in FragMenu :
        /\ StreamStep(chunk)
        /\ received' = Append(received, chunk)
    /\ events_left' = events_left - 1

InitStream ==
    /\ InitHost
    /\ InitTurn
    /\ transport_kind = "frag"
    /\ events_left = MaxFrags
    /\ turns_started = 0
    /\ requests = 0
    /\ start_messages = <<>>
    /\ dispatched = <<>>
    /\ outcomes = <<>>
    /\ escaped = "no"
    /\ received = <<>>
    /\ starts = 0
    /\ start_errors = <<>>
    /\ InitClient
    /\ InitServer

\* one turn is resolved
NextStream ==
    \/ ConnectMCP
    \/ \E p \in Prompts : turns_started = 0 /\ SubmitPrompt(p)
    \/ CreateStream
    \/ StreamFragment
    \/ StreamEndsWithCalls
    \/ StreamEndsFinal
    \/ DispatchTool
    \/ ToolReturns
    \/ Persist

SpecStream == InitStream /\ [][NextStream]_vars

(***************************************************************************)
(* MCPClient (src/mcp_client.py): the background thread "mcp-session"      *)
(* runs one event loop that owns the session; synchronous callers submit   *)
(* coroutines to that loop and block on the future.                        *)
(***************************************************************************)
TextContent(t) == [type |-> "text", text |-> t]
ImageContent == [type |-> "image"]

\* what the server answers to a call of tool `name`
Contents(name) ==
    { <<TextContent("r_" \o name)>>,
      <<TextContent(name), ImageContent, TextContent("2")>>,
      <<>> }

\* for content_item in result.content: if hasattr(content_item, "text")
RECURSIVE text_parts(_)
text_parts(content) ==
    IF content = <<>> THEN <<>>
    ELSE IF HasKey(Head(content), "text")
         THEN <<Head(content).text>> \o text_parts(Tail(content))
         ELSE text_parts(Tail(content))

\* variant: only the first text part is returned
call_result_first(content) ==
    IF text_parts(content) = <<>> THEN "" ELSE text_parts(content)[1]

\* the value the coroutine _call returns
call_result(content) == join_parts(text_parts(content))

\* variant: the handler captures whatever reaches it
handler_captures_always(is_set) == TRUE

\* variant: the test inverted
handler_captures_inverted(is_set) == is_set

\* except Exception as exc: if not self._initialized.is_set()
handler_captures(is_set) == ~is_set

\* if self._session is None or self._loop is None
not_initialised(s, l) == s = None \/ l = None

\* variant: the future kept in one place shared by all calls
future_shared(c) == 1

\* future = asyncio.run_coroutine_threadsafe(...): a local of the call, so
\* every call waits on the future of its own coroutine
future_slot(c) == c

\* ---- the background thread ------------------------------------------------
\* self._loop = asyncio.new_event_loop(); run_until_complete starts
BgNewLoop ==
    /\ bg_pc = "start"
    /\ loop' = "loop"
    /\ loop_state' = "running"
    /\ bg_pc' = "spawn"
    /\ UNCHANGED <<tools, session, stop_event, initialized, init_error, bg_exc,
                   stop_cb, future, syncVars, obsVars, appVars, serverVars>>

\* async with stdio_client(...), async with ClientSession(...)
BgSpawn ==
    /\ bg_pc = "spawn"
    /\ bg_pc' = "initialize"
    /\ UNCHANGED <<fieldVars, bg_exc, loop_state, stop_cb, future, syncVars,
                   obsVars, appVars, serverVars>>

\* await session.initialize()
BgInitialize ==
    /\ bg_pc = "initialize"
    /\ bg_pc' = "list_tools"
    /\ UNCHANGED <<fieldVars, bg_exc, loop_state, stop_cb, future, syncVars,
                   obsVars, appVars, serverVars>>

\* tools_result = await session.list_tools(); self._tools = [...]
BgListTools ==
    /\ bg_pc = "list_tools"
    /\ tools' = ServerTools
    /\ bg_pc' = "set_session"
    /\ UNCHANGED <<session, loop, stop_event, initialized, init_error, bg_exc,
                   loop_state, stop_cb, future, syncVars, obsVars, appVars, serverVars>>

\* any await of the handshake raises: run_until_complete raises
BgHandshakeRaises ==
    /\ bg_pc \in {"spawn", "initialize", "list_tools"}
    /\ bg_exc' = "handshake failed"
    /\ loop_state' = "stopped"
    /\ bg_pc' = "except"
    /\ UNCHANGED <<fieldVars, stop_cb, future, syncVars, obsVars, appVars, serverVars>>

\* self._session = session
BgSetSession ==
    /\ bg_pc = "set_session"
    /\ session' = "session"
    /\ bg_pc' = "set_stop_event"
    /\ UNCHANGED <<tools, loop, stop_event, initialized, init_error, bg_exc,
                   loop_state, stop_cb, future, syncVars, obsVars, appVars, serverVars>>

\* self._stop_event = asyncio.Event()
BgSetStopEvent ==
    /\ bg_pc = "set_stop_event"
    /\ stop_event' = "clear"
    /\ bg_pc' = "signal_ready"
    /\ UNCHANGED <<tools, session, loop, initialized, init_error, bg_exc,
                   loop_state, stop_cb, future, syncVars, obsVars, appVars, serverVars>>

\* self._initialized.set(), then the coroutine parks in _stop_event.wait()
BgSignalReady ==
    /\ bg_pc = "signal_ready"
    /\ initialized' = TRUE
    /\ signals' = signals + 1
    /\ bg_pc' = "serving"
    /\ UNCHANGED <<tools, session, loop, stop_event, init_error, bg_exc,
                   loop_state, stop_cb, future, syncVars, errors_recorded, appVars, serverVars>>

\* the session dies while the coroutine waits for shutdown
BgSessionDies ==
    /\ bg_pc = "serving"
    /\ bg_exc' = "session died"
    /\ loop_state' = "stopped"
    /\ bg_pc' = "except"
    /\ UNCHANGED <<fieldVars, stop_cb, future, syncVars, obsVars, appVars, serverVars>>

\* the loop runs the callback shutdown() scheduled
StopCallbackRuns ==
    /\ stop_cb
    /\ loop_state = "running"
    /\ bg_pc = "serving"
    /\ stop_event' = "set"
    /\ stop_cb' = FALSE
    /\ UNCHANGED <<tools, session, loop, initialized, init_error, bg_pc, bg_exc,
                   loop_state, future, syncVars, obsVars, appVars, serverVars>>

\* await self._stop_event.wait() returns
BgWake ==
    /\ bg_pc = "serving"
    /\ stop_event = "set"
    /\ bg_pc' = "closing"
    /\ UNCHANGED <<fieldVars, bg_exc, loop_state, stop_cb, future, syncVars,
                   obsVars, appVars, serverVars>>

\* both context managers exit, run_until_complete returns
BgCloseClean ==
    /\ bg_pc = "closing"
    /\ loop_state' = "stopped"
    /\ bg_pc' = "finally"
    /\ UNCHANGED <<fieldVars, bg_exc, stop_cb, future, syncVars, obsVars, appVars, serverVars>>

\* a context manager raises on exit
BgCloseRaises ==
    /\ bg_pc = "closing"
    /\ bg_exc' = "close failed"
    /\ loop_state' = "stopped"
    /\ bg_pc' = "except"
    /\ UNCHANGED <<fieldVars, stop_cb, future, syncVars, obsVars, appVars, serverVars>>

\* except Exception as exc: if not self._initialized.is_set():
BgExceptCheck ==
    /\ bg_pc = "except"
    /\ bg_pc' = IF handler_captures(initialized) THEN "record_error" ELSE "finally"
    /\ UNCHANGED <<fieldVars, bg_exc, loop_state, stop_cb, future, syncVars,
                   obsVars, appVars, serverVars>>

\* self._init_error = exc
BgRecordError ==
    /\ bg_pc = "record_error"
    /\ init_error' = bg_exc
    /\ errors_recorded' = errors_recorded + 1
    /\ bg_pc' = "signal_failed"
    /\ UNCHANGED <<tools, session, loop, stop_event, initialized, bg_exc,
                   loop_state, stop_cb, future, syncVars, signals, appVars, serverVars>>

\* self._initialized.set()
BgSignalFailed ==
    /\ bg_pc = "signal_failed"
    /\ initialized' = TRUE
    /\ signals' = signals + 1
    /\ bg_pc' = "finally"
    /\ UNCHANGED <<tools, session, loop, stop_event, init_error, bg_exc,
                   loop_state, stop_cb, future, syncVars, errors_recorded, appVars, serverVars>>

\* finally: self._loop.close(); the thread ends
BgFinally ==
    /\ bg_pc = "finally"
    /\ loop_state' = "closed"
    /\ bg_pc' = "exited"
    /\ UNCHANGED <<fieldVars, bg_exc, stop_cb, future, syncVars, obsVars, appVars, serverVars>>

\* ---- coroutines submitted by call_tool, run by the loop ---------------------
\* variant: submitted coroutines are run also after run_until_complete ended
LoopTurns_stopped == loop_state \in {"running", "stopped"}

\* the loop runs what was submitted to it while run_until_complete runs
LoopTurns == loop_state = "running" /\ bg_pc \in {"serving", "closing"}

\* the loop starts _call(): await self._session.call_tool(name, arguments)
TaskStart(c) ==
    /\ future[c].kind = "queued"
    /\ LoopTurns
    /\ future' = [future EXCEPT ![c] = [kind |-> "running", name |-> future[c].name]]
    /\ UNCHANGED <<fieldVars, bg_pc, bg_exc, loop_state, stop_cb, syncVars,
                   obsVars, appVars, serverVars>>

\* the server answers; _call joins the text parts and returns
RemoteReturns(c) ==
    /\ future[c].kind = "running"
    /\ loop_state = "running"
    /\ bg_pc = "serving"
    /\ \E content \in Contents(future[c].name) :
           future' = [future EXCEPT
                         ![c] = [kind |-> "result", text |-> call_result(content),
                                 content |-> content]]
    /\ UNCHANGED <<fieldVars, bg_pc, bg_exc, loop_state, stop_cb, syncVars,
                   obsVars, appVars, serverVars>>

\* session.call_tool raises inside _call
RemoteRaises(c) ==
    /\ future[c].kind = "running"
    /\ LoopTurns
    /\ future' = [future EXCEPT ![c] = [kind |-> "exception", msg |-> "boom"]]
    /\ UNCHANGED <<fieldVars, bg_pc, bg_exc, loop_state, stop_cb, syncVars,
                   obsVars, appVars, serverVars>>

\* ---- __init__ -------------------------------------------------------------
\* variant: the value of wait() is not looked at
ctor_outcome_unchecked(signalled, err) ==
    IF err # None THEN "raised_error" ELSE "returned"

\* if not self._initialized.wait(timeout=60): raise RuntimeError(...)
\* if self._init_error: raise self._init_error
ctor_outcome(signalled, err) ==
    IF ~signalled THEN "raised_timeout"
    ELSE IF err # None THEN "raised_error" ELSE "returned"

\* self._initialized.wait(timeout=60) returns True
CtorWakes ==
    /\ ctor = "waiting"
    /\ initialized
    /\ ctor' = ctor_outcome(TRUE, init_error)
    /\ UNCHANGED <<fieldVars, bgVars, call_pc, call_out, sd_pc, obsVars, appVars, serverVars>>

\* the wait expires and returns False:
\* RuntimeError("MCP server did not initialise within 60 s")
CtorTimesOut ==
    /\ ctor = "waiting"
    /\ ~initialized
    /\ ctor' = ctor_outcome(FALSE, init_error)
    /\ UNCHANGED <<fieldVars, bgVars, call_pc, call_out, sd_pc, obsVars, appVars, serverVars>>

\* ---- call_tool ------------------------------------------------------------
\* the guard of call_tool
CallGuard(c) ==
    /\ call_pc[c] = "idle"
    /\ IF not_initialised(session, loop)
       THEN /\ call_pc' = [call_pc EXCEPT ![c] = "raised"]
            /\ call_out' = [call_out EXCEPT
                               ![c] = [raised |-> TRUE,
                                       value |-> "MCP client is not initialised."]]
       ELSE /\ call_pc' = [call_pc EXCEPT ![c] = "submit"]
            /\ UNCHANGED call_out
    /\ UNCHANGED <<fieldVars, bgVars, ctor, sd_pc, obsVars, appVars, serverVars>>

\* variant: a closed loop takes the coroutine like a running one
submit_raises_never(state) == FALSE

\* run_coroutine_threadsafe ends in loop.call_soon_threadsafe, which raises
\* RuntimeError("Event loop is closed") on a closed loop
submit_raises(state) == state = "closed"

\* future = asyncio.run_coroutine_threadsafe(_call(), self._loop)
CallSubmit(c) ==
    /\ call_pc[c] = "submit"
    /\ IF submit_raises(loop_state)
       THEN /\ call_pc' = [call_pc EXCEPT ![c] = "raised"]
            /\ call_out' = [call_out EXCEPT
                               ![c] = [raised |-> TRUE, value |-> "Event loop is closed"]]
            /\ UNCHANGED future
       ELSE /\ call_pc' = [call_pc EXCEPT ![c] = "waiting"]
            /\ future' = [future EXCEPT
                             ![future_slot(c)] = [kind |-> "queued", name |-> ToolOf(c)]]
            /\ UNCHANGED call_out
    /\ UNCHANGED <<fieldVars, bg_pc, bg_exc, loop_state, stop_cb, ctor, sd_pc,
                   obsVars, appVars, serverVars>>

\* future.result(timeout=120) finds the future done
CallCompletes(c) ==
    /\ call_pc[c] = "waiting"
    /\ future[future_slot(c)].kind \in {"result", "exception"}
    /\ call_out' = [call_out EXCEPT ![c] = call_tool_wait(future[future_slot(c)])]
    /\ call_pc' = [call_pc EXCEPT
                      ![c] = IF call_tool_wait(future[future_slot(c)]).raised
                             THEN "raised" ELSE "returned"]
    /\ UNCHANGED <<fieldVars, bgVars, ctor, sd_pc, obsVars, appVars, serverVars>>

\* the 120 s expire with the future pending; the coroutine is left on the loop
CallTimesOut(c) ==
    /\ call_pc[c] = "waiting"
    /\ future[future_slot(c)].kind \in {"queued", "running"}
    /\ call_out' = [call_out EXCEPT ![c] = call_tool_wait([kind |-> "timeout"])]
    /\ call_pc' = [call_pc EXCEPT
                      ![c] = IF call_tool_wait([kind |-> "timeout"]).raised
                             THEN "raised" ELSE "returned"]
    /\ UNCHANGED <<fieldVars, bgVars, ctor, sd_pc, obsVars, appVars, serverVars>>

\* ---- shutdown -------------------------------------------------------------
\* shutdown() is entered, for the first time or again after it returned:
\* if self._stop_event and self._loop and self._loop.is_running():
ShutdownCheck ==
    /\ sd_pc \in {"idle", "returned"}
    /\ sd_pc' = IF stop_event # None /\ loop # None /\ loop_state = "running"
                THEN "schedule" ELSE "join"
    /\ UNCHANGED <<fieldVars, bgVars, ctor, call_pc, call_out, obsVars, appVars, serverVars>>

\* self._loop.call_soon_threadsafe(self._stop_event.set)
ShutdownSchedule ==
    /\ sd_pc = "schedule"
    /\ IF loop_state = "closed"
       THEN sd_pc' = "raised" /\ UNCHANGED stop_cb
       ELSE sd_pc' = "join" /\ stop_cb' = TRUE
    /\ UNCHANGED <<fieldVars, bg_pc, bg_exc, loop_state, future, ctor, call_pc,
                   call_out, obsVars, appVars, serverVars>>

\* self._thread.join(timeout=5): the thread ended or the 5 s expire
ShutdownJoin ==
    /\ sd_pc = "join"
    /\ sd_pc' = "returned"
    /\ UNCHANGED <<fieldVars, bgVars, ctor, call_pc, call_out, obsVars, appVars, serverVars>>

NextClient ==
    \/ BgNewLoop
    \/ BgSpawn
    \/ BgInitialize
    \/ BgListTools
    \/ BgHandshakeRaises
    \/ BgSetSession
    \/ BgSetStopEvent
    \/ BgSignalReady
    \/ BgSessionDies
    \/ StopCallbackRuns
    \/ BgWake
    \/ BgCloseClean
    \/ BgCloseRaises
    \/ BgExceptCheck
    \/ BgRecordError
    \/ BgSignalFailed
    \/ BgFinally
    \/ \E c \in Callers : TaskStart(c)
    \/ \E c \in Callers : RemoteReturns(c)
    \/ \E c \in Callers : RemoteRaises(c)
    \/ CtorWakes
    \/ CtorTimesOut
    \/ \E c \in Callers : CallGuard(c)
    \/ \E c \in Callers : CallSubmit(c)
    \/ \E c \in Callers : CallCompletes(c)
    \/ \E c \in Callers : CallTimesOut(c)
    \/ ShutdownCheck
    \/ ShutdownSchedule
    \/ ShutdownJoin

\* the application side stands still while the client object is exercised
InitStandalone ==
    /\ InitHost
    /\ InitTurn
    /\ InitEnv
    /\ transport_kind = "stub"
    /\ InitClient
    /\ InitServer

SpecClient == InitStandalone /\ [][NextClient]_vars

\* what one caller does inside call_tool after the guard
CallStep(c) == CallSubmit(c) \/ CallCompletes(c) \/ CallTimesOut(c)

\* what the background thread does once run_until_complete has raised or
\* returned: the except handler and the finally clause, none of which blocks
BgUnwind == BgExceptCheck \/ BgRecordError \/ BgSignalFailed \/ BgFinally

\* __init__ leaves its wait: the event is set or the 60 s expire
CtorStep == CtorWakes \/ CtorTimesOut

\* threads keep running where they cannot block: a caller inside call_tool
\* (submitting does not block, future.result(timeout=120) is bounded), the
\* background thread in its handler, __init__ in its bounded wait
FairSpecClient ==
    /\ SpecClient
    /\ \A c \in Callers : WF_vars(CallStep(c))
    /\ WF_vars(BgUnwind)
    /\ WF_vars(CtorStep)

\* what shutdown() does after its test: scheduling does not block and the
\* join is bounded (5 s)
ShutdownStep == ShutdownSchedule \/ ShutdownJoin

\* the two context managers exit, cleanly or not
BgClose == BgCloseClean \/ BgCloseRaises

\* the client with a caller inside shutdown() and a loop that keeps running:
\* it runs a scheduled callback, resumes the coroutine whose event was set,
\* and the context managers exit
FairSpecShutdown ==
    /\ SpecClient
    /\ WF_vars(ShutdownStep)
    /\ WF_vars(StopCallbackRuns)
    /\ WF_vars(BgWake)
    /\ WF_vars(BgClose)
    /\ WF_vars(BgUnwind)

(***************************************************************************)
(* Properties of the host and its round loop.                              *)
(***************************************************************************)
IsCallsMsg(m) == m.role = "assistant" /\ HasKey(m, "tool_calls")

IsToolMsg(m) == m.role = "tool"

\* the number of tool messages that directly follow position j
ToolRunAfter(seq, j) ==
    CHOOSE k \in 0..(Len(seq) - j) :
        /\ \A i \in 1..k : IsToolMsg(seq[j + i])
        /\ (j + k < Len(seq) => ~IsToolMsg(seq[j + k + 1]))

\* the assistant-with-calls message at j is followed by exactly one tool
\* message per call, ids matching by position
PairedAt(seq, j) ==
    LET calls == seq[j].tool_calls
    IN  /\ ToolRunAfter(seq, j) = Len(calls)
        /\ \A k \in 1..Len(calls) : seq[j + k].tool_call_id = calls[k].id

Paired(seq) == \A j \in 1..Len(seq) : IsCallsMsg(seq[j]) => PairedAt(seq, j)

\* the position of the last assistant-with-calls message (0 if none)
LastCallsPos(seq) ==
    IF \E j \in 1..Len(seq) : IsCallsMsg(seq[j])
    THEN CHOOSE j \in 1..Len(seq) :
            IsCallsMsg(seq[j]) /\ \A i \in (j + 1)..Len(seq) : ~IsCallsMsg(seq[i])
    ELSE 0

InToolLoop == pc \in {"tools", "in_call"}

\* C1: one turn issues at most 10 streaming requests to the model, whatever
\* the transport does (also when every response asks for a further tool
\* call), and the round loop always terminates.
C1_RoundCap == [](requests <= MaxRounds) /\ ((pc # "idle") ~> (pc = "idle"))

\* the cap was hit: ten requests, each answered with a tool call
C1_Witness == pc = "persist" /\ requests = MaxRounds /\ round = MaxRounds

\* C2: in every TurnSequence the round loop produces, each
\* assistant-with-calls message with n calls is directly followed by exactly
\* n tool-result messages, the k-th carrying the id of the k-th call; while
\* the tool loop of a round runs, the results appended so far pair with the
\* first calls of the round's message.
C2_Pairing ==
    /\ ~InToolLoop => Paired(turn_llm_sequence)
    /\ \A e \in 1..Len(Disp) :
          Disp[e].role = "assistant" => Paired(Disp[e].llm_sequence)
    /\ InToolLoop =>
          LET seq == turn_llm_sequence
              j == LastCallsPos(seq)
          IN  /\ j > 0
              /\ \A i \in 1..(j - 1) : IsCallsMsg(seq[i]) => PairedAt(seq, i)
              /\ ToolRunAfter(seq, j) = exec_pos - 1
              /\ j + exec_pos - 1 = Len(seq)
              /\ exec_pos - 1 <= Len(seq[j].tool_calls)
              /\ \A k \in 1..(exec_pos - 1) :
                    seq[j + k].tool_call_id = seq[j].tool_calls[k].id

\* a finished round of two calls, the first failed and the second succeeded
C2_Witness ==
    /\ pc = "round"
    /\ Len(outcomes) = 2
    /\ outcomes[1] # "ok"
    /\ outcomes[2] = "ok"
    /\ Len(turn_llm_sequence) = 3
    /\ Len(turn_llm_sequence[1].tool_calls) = 2

\* the number of tool messages at the end of seq
TrailingTools(seq) ==
    CHOOSE k \in 0..Len(seq) :
        /\ \A i \in 1..k : IsToolMsg(seq[Len(seq) - k + i])
        /\ (k < Len(seq) => ~IsToolMsg(seq[Len(seq) - k]))

\* C3: within one round the calls are handed to call_tool one at a time in
\* ascending index order whatever order the indices arrived in: when the
\* call for index j is dispatched, every smaller index has been dispatched
\* before and its tool-result message is appended; the results are in that
\* same order.
C3_AscendingDispatch ==
    /\ \A a, b \in 1..Len(dispatched) : a < b => dispatched[a] < dispatched[b]
    /\ InToolLoop =>
          LET seq == turn_llm_sequence
              done == TrailingTools(seq)
          IN  /\ done = IF pc = "in_call" THEN Len(dispatched) - 1 ELSE Len(dispatched)
              /\ \A k \in 1..done :
                    seq[Len(seq) - done + k].tool_call_id =
                        TcAt(accumulated_tcs, dispatched[k]).id
              /\ \A k \in 1..Len(dispatched) :
                    \A i \in KeySet(accumulated_tcs) :
                        i < dispatched[k] => \E a \in 1..(k - 1) : dispatched[a] = i

\* index 1 arrived before index 0; index 1 is in flight after index 0 returned
C3_Witness ==
    /\ pc = "in_call"
    /\ Keys(accumulated_tcs) = <<1, 0>>
    /\ dispatched = <<0, 1>>

\* C4: the message list built for the next prompt is the list built at the
\* start of the prior turn, then that turn's TurnSequence, then the new user
\* message.
C4_ResumesExactly ==
    [][(pc = "idle" /\ pc' = "round" /\ turns_started >= 1)
          => llm_messages' =
                start_messages \o turn_llm_sequence \o <<UserMsg(active_prompt')>>]_vars

\* what a display entry contributes, counted
EntrySize(dm) ==
    IF dm.role = "user" THEN 1
    ELSE IF dm.llm_sequence # <<>> THEN Len(dm.llm_sequence)
         ELSE 1 + Len(dm.tool_calls)

RECURSIVE SizeBefore(_, _)
\* the number of messages the entries before entry i contribute
SizeBefore(display, i) ==
    IF i <= 1 THEN 0 ELSE SizeBefore(display, i - 1) + EntrySize(display[i - 1])

\* C5: the reconstructed list starts with exactly one system message, holds
\* for each prior display entry in order one user message (user entry) or
\* every message of the entry's TurnSequence verbatim and in order
\* (assistant entry with a TurnSequence), and ends with the new user message.
C5_Reconstruction ==
    pc # "idle" =>
        LET hist == ButLast(Disp)
            m == start_messages
            at(i) == 1 + SizeBefore(hist, i)
        IN  /\ m[1] = SystemMsg(SYSTEM_PROMPT)
            /\ \A k \in 2..Len(m) : m[k].role # "system"
            /\ Len(m) = at(Len(hist) + 1) + 1
            /\ m[Len(m)] = UserMsg(active_prompt)
            /\ \A i \in 1..Len(hist) :
                  /\ hist[i].role = "user" => m[at(i) + 1] = UserMsg(hist[i].content)
                  /\ (hist[i].role = "assistant" /\ hist[i].llm_sequence # <<>>) =>
                        SubSeq(m, at(i) + 1, at(i) + Len(hist[i].llm_sequence))
                            = hist[i].llm_sequence

\* a prior turn of two rounds (call, result, final) is replayed
C5_Witness ==
    /\ pc = "round"
    /\ Len(Disp) = 3
    /\ Len(Disp[2].llm_sequence) = 3
    /\ Len(start_messages) = 6

\* the readiness signal as callers see it
Ready == initialized /\ init_error = None
StartFailed == initialized /\ init_error # None

\* C7: the readiness signal is set exactly once over the worker's life: once
\* set it stays set, the recorded start failure never changes afterwards (an
\* exception after readiness records none, a failed worker never becomes
\* ready), and _initialized.set() runs at most once.
C7_ReadinessOnce ==
    [][/\ signals' <= 1
       /\ (initialized' <=> signals' = 1)
       /\ (initialized => initialized' /\ init_error' = init_error)
       /\ (Ready => errors_recorded' = 0)
       /\ (StartFailed => StartFailed')]_vars

\* the session died after readiness was signalled and the thread has ended
C7_Witness ==
    /\ bg_pc = "exited"
    /\ bg_exc = "session died"
    /\ Ready
    /\ signals = 1
    /\ errors_recorded = 0

\* the error texts a failed tool execution can carry
ErrorTexts ==
    {"boom", "", "Event loop is closed", "'NoneType' object has no attribute 'call_tool'"}

IsErrorPayload(text) == \E msg \in ErrorTexts : text = JsonError(msg)

\* C8: no failure of a tool execution leaves the turn as an exception: the
\* step that ends the call appends a tool-result message tagged with the
\* call's id, an {"error": ...} payload when the execution failed, and goes
\* on to the next call of the round or back to the next streaming request.
C8_ToolFailureFolded ==
    [][pc = "in_call" =>
          /\ escaped' = escaped
          /\ Len(outcomes') = Len(outcomes) + 1
          /\ turn_llm_sequence' =
                Append(turn_llm_sequence, Last(turn_llm_sequence'))
          /\ llm_messages' = Append(llm_messages, Last(turn_llm_sequence'))
          /\ IsToolMsg(Last(turn_llm_sequence'))
          /\ Last(turn_llm_sequence').tool_call_id = CurrentTc.id
          /\ (Last(outcomes') # "ok" => IsErrorPayload(Last(turn_llm_sequence').content))
          /\ pc' = IF exec_pos < Len(accumulated_tcs) THEN "tools"
                   ELSE IF round + 1 < MaxRounds THEN "round" ELSE "persist"]_vars

\* the first call of a round failed, the second ran, and the next request
\* to the model is being streamed
C8_Witness ==
    /\ pc = "stream"
    /\ Len(outcomes) = 2
    /\ outcomes[1] \in {"remote_raise", "timeout", "loop_closed"}
    /\ IsErrorPayload(turn_llm_sequence[2].content)
    /\ escaped = "no"


C10_Asymmetry ==
    [][\A c \in Callers :
          (call_pc[c] = "waiting" /\ call_pc'[c] # "waiting") =>
              IF future[c].kind = "exception"
              THEN call_out'[c] = [raised |-> FALSE, value |-> JsonError(future[c].msg)]
              ELSE IF future[c].kind = "result"
                   THEN call_out'[c] = [raised |-> FALSE, value |-> future[c].text]
                   ELSE call_out'[c].raised]_vars

\* C11: the record of every executed call has its error flag set exactly when
\* the execution failed (remote tool raised, call timed out, client missing
\* or its loop closed), and a failed execution's record carries the
\* {"error": ...} payload as its result.
C11_ErrorFlag ==
    pc # "idle" =>
        \A k \in 1..Len(collected_tool_calls) :
            /\ collected_tool_calls[k].is_error <=> outcomes[k] # "ok"
            /\ outcomes[k] # "ok" => IsErrorPayload(collected_tool_calls[k].result)

\* the texts a successful call of caller c's tool can return
OwnResults(c) == {call_result(content) : content \in Contents(ToolOf(c))}

\* the strings call_tool returns for a call that did not succeed
FailureResults == {JsonError("boom"), JsonError("")}

\* C12: two callers inside call_tool at the same time both leave it, and what
\* a caller gets back is the result of its own call: the text its own
\* coroutine produced for its own tool, never the other caller's.
C12_ConcurrentCalls ==
    /\ [](\A c \in Callers :
             call_pc[c] = "returned" =>
                 call_out[c].value \in OwnResults(c) \cup FailureResults)
    /\ [][\A c \in Callers :
             (call_pc[c] = "waiting" /\ call_pc'[c] # "waiting"
                  /\ future[c].kind = "result") =>
                 /\ call_pc'[c] = "returned"
                 /\ call_out'[c] = [raised |-> FALSE, value |-> future[c].text]]_vars
    /\ ((\A c \in Callers : call_pc[c] = "waiting")
           ~> (\A c \in Callers : call_pc[c] \in {"returned", "raised"}))

\* both calls are in flight on a ready session and both have been answered
C12_Witness ==
    /\ Ready
    /\ \A c \in Callers : call_pc[c] = "waiting" /\ future[c].kind = "result"
    /\ future[1].text = "r_f"
    /\ future[2].text = "r_g"

\* the argument fragments the log holds for index i, concatenated in order
RECURSIVE ConcatFrags(_, _)
ConcatFrags(log, i) ==
    IF log = <<>> THEN ""
    ELSE LET d == Head(log)
             piece == IF d.kind = "tc" /\ d.index = i /\ d.arguments # None
                      THEN d.arguments ELSE ""
         IN  piece \o ConcatFrags(Tail(log), i)

\* the records of the current round's calls that have been executed: the
\* k-th belongs to the k-th smallest index
RoundRecord(k) ==
    LET done == IF exec_pos - 1 < Len(accumulated_tcs)
                THEN exec_pos - 1 ELSE Len(accumulated_tcs)
    IN  collected_tool_calls[Len(collected_tool_calls) - done + k]

RoundRecordCount ==
    IF pc \in {"tools", "in_call", "round", "persist"}
    THEN IF exec_pos - 1 < Len(accumulated_tcs)
         THEN exec_pos - 1 ELSE Len(accumulated_tcs)
    ELSE 0

\* C13: for every index the argument buffer is the concatenation, in arrival
\* order, of the fragments streamed for that index, whatever arrived in
\* between for other indices; records appear only in the tool loop (after
\* the stream ended) and carry the arguments parsed from that concatenation,
\* so {"a":1,"b":2} yields a = 1, b = 2 whether it came in one fragment or
\* in three.
C13_FragmentConcat ==
    /\ [](pc \in {"stream", "tools", "in_call"} =>
             \A i \in KeySet(accumulated_tcs) :
                 TcAt(accumulated_tcs, i).arguments = ConcatFrags(received, i))
    /\ [](\A k \in 1..RoundRecordCount :
             LET text == ConcatFrags(received, sorted_keys(accumulated_tcs)[k])
             IN  /\ RoundRecord(k).arguments = parse_arguments(text).value
                 /\ text = WholeArgs =>
                        RoundRecord(k).arguments = {<<"a", 1>>, <<"b", 2>>})
    /\ [][Len(collected_tool_calls') > Len(collected_tool_calls) => pc = "in_call"]_vars

\* the text arrived in three fragments with a fragment of index 1 in
\* between, and the call of index 0 was executed with a = 1, b = 2
C13_Witness ==
    /\ pc = "tools"
    /\ exec_pos = 2
    /\ received = <<FragDelta(0, "{\"a\":"), FragDelta(1, "1}"),
                    FragDelta(0, "1,\"b\""), FragDelta(0, ":2}")>>
    /\ RoundRecord(1).arguments = {<<"a", 1>>, <<"b", 2>>}

\* C14: a handshake that raises before readiness was signalled is captured:
\* the connection reference stays unset, the worker signals failure with that
\* exception as the cause and its thread ends, and __init__, if it is still
\* waiting, is released and raises that cause.
C14_StartFailed ==
    /\ [](bg_exc = "handshake failed" => session = None)
    /\ [](ctor = "raised_error" => StartFailed /\ init_error = "handshake failed")
    /\ [][(StartFailed /\ ctor = "waiting" /\ ctor' # "waiting")
              => ctor' = "raised_error"]_vars
    /\ ((bg_exc = "handshake failed")
           ~> (/\ StartFailed
               /\ init_error = "handshake failed"
               /\ bg_pc = "exited"
               /\ ctor \in {"raised_error", "raised_timeout"}))

\* the handshake raised, __init__ raised the captured cause, the thread ended
C14_Witness ==
    /\ bg_exc = "handshake failed"
    /\ bg_pc = "exited"
    /\ ctor = "raised_error"
    /\ init_error = "handshake failed"
    /\ session = None

\* C15: __init__ never waits forever: when the readiness event is not set
\* within its wait it raises the timeout error, and it ends in exactly one of
\* three ways, which then stands: returned (the worker is ready), raised the
\* captured start failure, or raised the timeout.
C15_StartEnds ==
    /\ [](ctor \in {"waiting", "returned", "raised_error", "raised_timeout"})
    /\ [][ctor # "waiting" => ctor' = ctor]_vars
    /\ [][(ctor = "waiting" /\ ctor' # "waiting") =>
              /\ ~initialized => ctor' = "raised_timeout"
              /\ Ready => ctor' = "returned"
              /\ StartFailed => ctor' = "raised_error"]_vars
    /\ [](ctor = "returned" => Ready)
    /\ ((ctor = "waiting") ~> (ctor # "waiting"))

\* the 60 s expired while the handshake was still running
C15_Witness ==
    /\ ctor = "raised_timeout"
    /\ ~initialized
    /\ bg_pc \in {"spawn", "initialize", "list_tools"}

\* C16: a transport failure while the stream of a round is consumed ends the
\* turn with the text accumulated so far kept as the turn's text: the script
\* run that the failure ends leaves an assistant entry holding that text.
C16_PartialTextKept ==
    [][(pc = "stream" /\ escaped' = "stream") =>
          /\ pc' = "idle"
          /\ Len(Disp') = Len(Disp) + 1
          /\ Last(Disp').role = "assistant"
          /\ Last(Disp').content = accumulated_text]_vars

\* the stream of the round carried a tool-call delta
HasTcDelta(log) == \E k \in 1..Len(log) : log[k].kind = "tc"

\* C17: when the stream of a round ends the loop goes to the tool loop if
\* and only if the stream carried a tool-call delta, and otherwise appends
\* the final assistant message and leaves the loop; so nothing is dispatched
\* in a round without a tool-call delta and no final message is appended in
\* a round with one.
C17_ToolsIffCalls ==
    /\ [][(pc = "stream" /\ pc' # "stream") =>
              /\ pc' \in {"tools", "persist"}
              /\ pc' = "tools" <=> HasTcDelta(received)
              /\ pc' = "tools" =>
                    /\ IsCallsMsg(Last(turn_llm_sequence'))
                    /\ Len(turn_llm_sequence') = Len(turn_llm_sequence) + 1
              /\ pc' = "persist" =>
                    turn_llm_sequence' =
                        Append(turn_llm_sequence, AssistantMsg(accumulated_text))]_vars
    /\ [](InToolLoop => HasTcDelta(received))
    /\ [][dispatched' # dispatched /\ dispatched' # <<>> => HasTcDelta(received)]_vars

\* the first round carried tool-call deltas and ran its tools, the second
\* carried text only and ended the turn
C17_Witness ==
    /\ pc = "persist"
    /\ round = 1
    /\ received = <<TextChunk>>
    /\ Len(turn_llm_sequence) >= 3
    /\ ~IsCallsMsg(Last(turn_llm_sequence))

(***************************************************************************)
(* C18.  The step that ends a turn with a final answer (the stream of a    *)
(* round ends with no tool call accumulated) appends exactly one plain     *)
(* assistant message holding the text accumulated in that round, possibly  *)
(* empty, as the last element of the turn's sequence, and that text is the *)
(* turn's response.  In a turn's sequence, running or stored, a plain      *)
(* assistant message occurs only at the last position: there is at most    *)
(* one and nothing follows it; a stored turn that has one shows its text.  *)
(***************************************************************************)
IsFinalMsg(m) == m.role = "assistant" /\ ~HasKey(m, "tool_calls")

FinalPositions(seq) == {i \in 1..Len(seq) : IsFinalMsg(seq[i])}

FinalOnlyLast(seq) == FinalPositions(seq) \subseteq {Len(seq)}

C18_FinalMessage ==
    /\ [][(pc = "stream" /\ pc' = "persist") =>
              /\ Len(turn_llm_sequence') = Len(turn_llm_sequence) + 1
              /\ SubSeq(turn_llm_sequence', 1, Len(turn_llm_sequence)) = turn_llm_sequence
              /\ Last(turn_llm_sequence') = [role |-> "assistant", content |-> accumulated_text]
              /\ FinalPositions(turn_llm_sequence') = {Len(turn_llm_sequence')}
              /\ final_response_text' = accumulated_text]_vars
    /\ [](FinalOnlyLast(turn_llm_sequence))
    /\ [](\A cid \in DOMAIN conversations :
            \A i \in 1..Len(conversations[cid]) :
                LET e == conversations[cid][i]
                IN  e.role = "assistant" =>
                        /\ FinalOnlyLast(e.llm_sequence)
                        /\ FinalPositions(e.llm_sequence) # {} =>
                               Last(e.llm_sequence).content = e.content)

\* a stored turn of one tool round whose final answer is the empty text
C18_Witness ==
    \E i \in 1..Len(Disp) :
        /\ Disp[i].role = "assistant"
        /\ Len(Disp[i].llm_sequence) >= 3
        /\ IsFinalMsg(Last(Disp[i].llm_sequence))
        /\ Disp[i].content = ""

(***************************************************************************)
(* C19.  A tool call whose argument buffer is empty, whitespace-only or    *)
(* not parsable as JSON is still run: the tool loop dispatches it without  *)
(* ending the turn, its record carries the empty argument set, the call is *)
(* made through the client when one is held, and its tool message with the *)
(* call's id is appended to the turn's sequence.  No turn is ended by the  *)
(* parsing of arguments.                                                   *)
(***************************************************************************)
Malformed(buffer) == strip(buffer) = "" \/ ~json_loads(buffer).ok

C19_MalformedArgs ==
    /\ [][(pc = "tools" /\ Malformed(CurrentTc.arguments)) =>
              /\ pc' = "in_call"
              /\ dispatched' = Append(dispatched, CurrentIndex)
              /\ escaped' = escaped]_vars
    /\ [][(pc = "in_call" /\ Malformed(CurrentTc.arguments)) =>
              /\ escaped' = escaped
              /\ Len(collected_tool_calls') = Len(collected_tool_calls) + 1
              /\ Last(collected_tool_calls').call_id = CurrentTc.id
              /\ Last(collected_tool_calls').arguments = {}
              /\ turn_llm_sequence' =
                     Append(turn_llm_sequence,
                            [role |-> "tool", tool_call_id |-> CurrentTc.id,
                             content |-> Last(collected_tool_calls').result])
              /\ mcp_client # None => Last(outcomes') = "ok"]_vars
    /\ [](escaped # "parse")

\* both calls of a round have been run, one with an unparsable buffer and
\* one with an empty buffer, through a held client
C19_Witness ==
    /\ pc = "round"
    /\ round = 1
    /\ mcp_client # None
    /\ escaped = "no"
    /\ Len(accumulated_tcs) = 2
    /\ TcAt(accumulated_tcs, 0).arguments = "{\"a\":"
    /\ TcAt(accumulated_tcs, 1).arguments = ""
    /\ Len(collected_tool_calls) = 2
    /\ \A k \in 1..2 : collected_tool_calls[k].arguments = {}
    /\ outcomes = <<"ok", "ok">>
    /\ IsToolMsg(Last(turn_llm_sequence))

(***************************************************************************)
(* C20.  When the remote call succeeds, the text call_tool returns is the  *)
(* texts of the result's parts of type text, in the order of the result,   *)
(* with one newline between consecutive texts; parts of any other type     *)
(* contribute nothing, and a result with no text part gives the empty      *)
(* string.                                                                 *)
(***************************************************************************)
TextPositions(content) == {i \in 1..Len(content) : content[i].type = "text"}

\* the texts at the text positions up to position n, newline-separated
RECURSIVE JoinedUpTo(_, _)
JoinedUpTo(content, n) ==
    IF n = 0 THEN ""
    ELSE IF n \notin TextPositions(content) THEN JoinedUpTo(content, n - 1)
         ELSE IF \E j \in TextPositions(content) : j < n
              THEN JoinedUpTo(content, n - 1) \o "\n" \o content[n].text
              ELSE content[n].text

ExpectedText(content) == JoinedUpTo(content, Len(content))

C20_JoinedText ==
    /\ [](\A c \in Callers :
             future[c].kind = "result" =>
                 future[c].text = ExpectedText(future[c].content))
    /\ [][\A c \in Callers :
             (call_pc[c] = "waiting" /\ call_pc'[c] # "waiting"
                  /\ future[c].kind = "result") =>
                 call_out'[c] = [raised |-> FALSE,
                                 value |-> ExpectedText(future[c].content)]]_vars

\* one caller got two texts around an image part, the other got a result
\* with no part at all
C20_Witness ==
    /\ call_pc[1] = "returned"
    /\ future[1].kind = "result"
    /\ future[1].content = <<[type |-> "text", text |-> "f"], [type |-> "image"],
                             [type |-> "text", text |-> "2"]>>
    /\ call_out[1] = [raised |-> FALSE, value |-> "f\n2"]
    /\ call_pc[2] = "returned"
    /\ future[2].kind = "result"
    /\ future[2].content = <<>>
    /\ call_out[2] = [raised |-> FALSE, value |-> ""]

(***************************************************************************)
(* C21.  Whatever turns a conversation went through (answered, cut by the  *)
(* round cap, ended by a failed request, stored with an empty sequence     *)
(* and rebuilt by the fallback branch), the message list rebuilt from it   *)
(* for any next prompt is paired: each assistant message with n calls is   *)
(* directly followed by exactly n tool messages carrying the calls' ids in *)
(* order, and every tool message belongs to such a run.  The list a turn   *)
(* starts from is such a list.                                             *)
(***************************************************************************)
NoOrphanTool(seq) ==
    \A i \in 1..Len(seq) :
        IsToolMsg(seq[i]) =>
            \E j \in 1..(i - 1) :
                /\ IsCallsMsg(seq[j])
                /\ i - j <= Len(seq[j].tool_calls)
                /\ \A m \in (j + 1)..i : IsToolMsg(seq[m])

WellPaired(seq) == Paired(seq) /\ NoOrphanTool(seq)

C21_ReconstructedPaired ==
    /\ \A cid \in DOMAIN conversations :
          \A p \in Prompts :
              WellPaired(reconstruct_llm_messages(conversations[cid], p))
    /\ pc = "round" /\ round = 0 => WellPaired(llm_messages)

\* the second turn starts from a first turn that ran two calls in a round and
\* was then ended by a failed request: its stored sequence ends with a tool
\* message, directly followed by the new user message
C21_Witness ==
    /\ pc = "round"
    /\ round = 0
    /\ turns_started = 2
    /\ Len(llm_messages) = 6
    /\ IsCallsMsg(llm_messages[3])
    /\ Len(llm_messages[3].tool_calls) = 2
    /\ IsToolMsg(llm_messages[5])
    /\ llm_messages[6].role = "user"

(***************************************************************************)
(* C22.  The step by which a call_tool gives up its wait (the future is    *)
(* still pending) changes no field of the client, nothing of the           *)
(* background thread and leaves the coroutine on the loop.  A caller that  *)
(* enters call_tool after another caller timed out is not turned away at   *)
(* the guard.  What a timed-out caller got back never changes afterwards,  *)
(* also when its coroutine completes late, and a caller that returns from  *)
(* a completed future returns a text produced for its own tool.            *)
(***************************************************************************)
TimedOut(c) == call_pc[c] = "returned" /\ call_out[c].value = JsonError("")

C22_TimeoutLeavesSession ==
    /\ [][\A c \in Callers :
             (call_pc[c] = "waiting" /\ call_pc'[c] # "waiting"
                  /\ future[c].kind \in {"queued", "running"}) =>
                 /\ TimedOut(c)'
                 /\ UNCHANGED <<fieldVars, bgVars>>]_vars
    /\ [][\A c \in Callers :
             TimedOut(c) => call_out'[c] = call_out[c] /\ call_pc'[c] = call_pc[c]]_vars
    /\ [][\A c, d \in Callers :
             (TimedOut(c) /\ call_pc[d] = "idle" /\ call_pc'[d] # "idle") =>
                 call_pc'[d] = "submit"]_vars
    /\ [](\A c \in Callers :
             (call_pc[c] = "returned" /\ ~TimedOut(c)) =>
                 call_out[c].value \in
                     {ExpectedText(content) : content \in Contents(ToolOf(c))}
                         \cup {JsonError("boom")})

\* caller 1 timed out and its coroutine completed afterwards; the session is
\* ready and serving, and caller 2 got the result of its own call
C22_Witness ==
    /\ TimedOut(1)
    /\ future[1].kind = "result"
    /\ initialized /\ init_error = None
    /\ bg_pc = "serving"
    /\ loop_state = "running"
    /\ call_pc[2] = "returned"
    /\ call_out[2].value = "r_g"

(***************************************************************************)
(* C23.  A shutdown() that found the stop event set up and the loop        *)
(* running (a ready session whose background thread is running) leads to   *)
(* the end of the background thread: the wait on the stop event ends, the  *)
(* contexts are exited and the loop is closed.  shutdown() itself always   *)
(* gets back to its caller by returning, after the bounded join, whether   *)
(* or not the thread has ended, on a first call and on any further call,   *)
(* and it writes no field of the client.                                   *)
(***************************************************************************)
C23_ShutdownStops ==
    /\ (sd_pc = "schedule" /\ Ready) ~> (bg_pc = "exited" /\ loop_state = "closed")
    /\ (sd_pc \in {"schedule", "join"}) ~> (sd_pc = "returned")
    /\ [](sd_pc # "raised")
    /\ [][sd_pc' # sd_pc => UNCHANGED fieldVars]_vars

(***************************************************************************)
(* C24.  No step of a script run changes what is stored: every stored      *)
(* display entry, with its tool records and its sequence, stays what it    *)
(* was and where it was; a conversation other than the current one is      *)
(* left as it is; the current one only grows at its end, by the user       *)
(* entry and by the one assistant entry of the turn.  Building the message *)
(* list of a turn from the stored sequences leaves them as they were.      *)
(***************************************************************************)
IsPrefix(s, t) == Len(s) <= Len(t) /\ SubSeq(t, 1, Len(s)) = s

C24_StoredUntouched ==
    /\ [][\A cid \in DOMAIN conversations :
             /\ cid \in DOMAIN conversations'
             /\ IsPrefix(conversations[cid], conversations'[cid])
             /\ cid # current_conv_id => conversations'[cid] = conversations[cid]]_vars
    /\ [][pc # "idle" =>
             /\ current_conv_id' = current_conv_id
             /\ pc # "persist" => conversations' = conversations]_vars
    /\ [][(pc = "idle" /\ pc' = "round") =>
             /\ Len(conversations'[current_conv_id]) <= Len(Disp) + 1
             /\ llm_messages' =
                    <<SystemMsg(SYSTEM_PROMPT)>> \o ReplayHistory(Disp)
                        \o <<UserMsg(active_prompt')>>
                 \/ Last(Disp) = [role |-> "user", content |-> active_prompt']]_vars
    /\ [][pc = "persist" /\ pc' # "persist" =>
             /\ Len(conversations'[current_conv_id]) = Len(Disp) + 1
             /\ Last(conversations'[current_conv_id]).role = "assistant"]_vars

\* a turn with a tool round is stored in the first conversation, and a turn
\* has been resolved and stored in the second
C24_Witness ==
    /\ pc = "idle"
    /\ current_conv_id = "c2"
    /\ Len(conversations["c2"]) = 2
    /\ Len(conversations["c1"]) = 2
    /\ Len(conversations["c1"][2].llm_sequence) >= 3
    /\ Len(conversations["c2"][2].llm_sequence) >= 1

(***************************************************************************)
(* C25.  In every state in which readiness is not ready (not yet           *)
(* signalled, or signalled with a start failure) the tool list is empty;   *)
(* the list is non-empty only in states in which readiness is ready.       *)
(***************************************************************************)
C25_EmptyUnlessReady == ~Ready => tools = <<>>

(***************************************************************************)
(* C26.  The session reference and the tool list are each written once at  *)
(* most: by the background thread, from their initial value, before        *)
(* readiness is signalled.  No later step (a call, a shutdown, the session *)
(* failing after readiness, the thread's exit) writes them.  So a ready    *)
(* client has its session, its stop event and its tool list, and a client  *)
(* whose start failed has no session.                                      *)
(***************************************************************************)
C26_WriteOnce ==
    /\ [][session' # session =>
              session = None /\ ~initialized /\ bg_pc = "set_session"]_vars
    /\ [][tools' # tools =>
              tools = <<>> /\ session = None /\ ~initialized /\ bg_pc = "list_tools"]_vars
    /\ [][loop' # loop => loop = None /\ bg_pc = "start"]_vars
    /\ [](Ready => session # None /\ stop_event # None /\ tools = ServerTools)
    /\ [](StartFailed => session = None /\ stop_event = None)

\* a ready client after a call, a shutdown and the late end of its session:
\* the fields are what the handshake wrote
C26_Witness ==
    /\ Ready
    /\ bg_pc = "exited"
    /\ bg_exc = "session died"
    /\ sd_pc = "returned"
    /\ call_pc[1] = "returned"
    /\ session = "session"
    /\ tools = ServerTools

(***************************************************************************)
(* C27.  Once the session has failed after readiness was signalled, the    *)
(* failure is not recorded as a start failure and readiness is not         *)
(* signalled again; no coroutine of a call is started or answered any      *)
(* more, so a call whose coroutine had not started ends at the call site   *)
(* with an error (the submission raises, or the bounded wait expires and   *)
(* the error text is returned); and every caller inside call_tool leaves   *)
(* it.                                                                     *)
(***************************************************************************)
SessionDied == bg_exc = "session died"

NotStarted(c) == future[c].kind \in {"none", "queued"}

CallSiteErrors ==
    {[raised |-> TRUE, value |-> "Event loop is closed"],
     [raised |-> FALSE, value |-> JsonError("")]}

C27_LateFailure ==
    /\ [](SessionDied =>
             /\ initialized /\ init_error = None
             /\ signals = 1 /\ errors_recorded = 0
             /\ ctor # "raised_error")
    /\ [][SessionDied =>
             \A c \in Callers : NotStarted(c) => NotStarted(c)']_vars
    /\ [][SessionDied =>
             \A c \in Callers :
                 (NotStarted(c) /\ call_pc[c] \in {"submit", "waiting"}
                      /\ call_pc'[c] # call_pc[c] /\ call_pc'[c] # "waiting") =>
                     call_out'[c] \in CallSiteErrors]_vars
    /\ \A c \in Callers :
          (SessionDied /\ call_pc[c] \in {"submit", "waiting"})
              ~> (call_pc[c] \in {"returned", "raised"})

\* after the late failure one call was refused by the closed loop and one
\* expired on a coroutine that was never started
C27_Witness ==
    /\ SessionDied
    /\ bg_pc = "exited"
    /\ ctor = "returned"
    /\ call_pc[1] = "raised"
    /\ call_out[1].value = "Event loop is closed"
    /\ future[1].kind = "none"
    /\ call_pc[2] = "returned"
    /\ call_out[2].value = JsonError("")
    /\ future[2].kind = "queued"

(***************************************************************************)
(* C28.  The host has one slot for a client.  A client is constructed only *)
(* by get_mcp_client and only while the slot is empty; a held client is    *)
(* never replaced and get_mcp_client hands it back without constructing.   *)
(* A construction that fails, by a start failure or by the start timeout,  *)
(* leaves the slot empty and shows one error; nothing constructs again on  *)
(* its own.  Resolving a turn constructs nothing and leaves the slot as it *)
(* is: with an empty slot the request carries no tools and no call reaches *)
(* a client.                                                               *)
(***************************************************************************)
C28_SingleClientNoRetry ==
    /\ [][starts' # starts =>
              /\ pc = "idle" /\ pc' = "idle"
              /\ mcp_client = None
              /\ starts' = starts + 1
              /\ mcp_client' = None => Len(start_errors') = Len(start_errors) + 1
              /\ mcp_client' # None => start_errors' = start_errors]_vars
    /\ [][mcp_client' # mcp_client => mcp_client = None /\ starts' = starts + 1]_vars
    /\ [][start_errors' # start_errors => starts' = starts + 1 /\ mcp_client' = None]_vars
    /\ [][(pc # "idle" \/ pc' # "idle") =>
              starts' = starts /\ mcp_client' = mcp_client]_vars
    /\ [](Len(start_errors) = starts - (IF mcp_client # None THEN 1 ELSE 0))
    /\ [](mcp_client = None =>
             /\ openai_tools(mcp_client) = <<>>
             /\ pc # "idle" => \A k \in 1..Len(outcomes) : outcomes[k] = "no_client")
    /\ [](\A r \in CtorOutcomes :
             get_mcp_client("client", r) =
                 [client |-> "client", constructed |-> FALSE, errors |-> <<>>])

\* the start timed out, the slot is empty, and a turn was answered without
\* tools
C28_Witness ==
    /\ mcp_client = None
    /\ starts = 1
    /\ start_errors = <<"Failed to start MCP server: raised_timeout">>
    /\ pc = "persist"
    /\ outcomes = <<>>
    /\ turn_llm_sequence = <<[role |-> "assistant", content |-> accumulated_text]>>

(***************************************************************************)
(* C29.  When every one of the 10 rounds asked for tool calls the loop     *)
(* leaves at the cap and the turn is stored: the stored sequence is the    *)
(* assistant-with-calls message and the tool messages of the 10 rounds, in *)
(* order, and the text the model streamed is the stored answer of the      *)
(* turn.                                                                   *)
(***************************************************************************)
\* the loop ran out of rounds: the turn is about to be stored
CapHit == pc = "persist" /\ round = MaxRounds /\ requests = MaxRounds

\* positions of the assistant-with-calls messages of a sequence
CallsPositions(seq) == {k \in 1..Len(seq) : IsCallsMsg(seq[k])}

\* the sequence is MaxRounds rounds, each an assistant-with-calls message
\* followed by the tool messages of its calls, and nothing else
AllRoundsInOrder(seq) ==
    /\ Cardinality(CallsPositions(seq)) = MaxRounds
    /\ WellPaired(seq)
    /\ \A k \in 1..Len(seq) : IsCallsMsg(seq[k]) \/ IsToolMsg(seq[k])

StoredAtCap ==
    CapHit => AllRoundsInOrder(turn_llm_sequence)

C29_CapKeepsAnswer ==
    /\ StoredAtCap
    /\ CapHit => final_response_text = accumulated_text

(***************************************************************************)
(* C30.  The content of an assistant-with-calls message is None when its   *)
(* round streamed no text, never the empty string, and is the streamed     *)
(* text when the round streamed text together with tool calls.  That text  *)
(* is not the answer of the turn: the answer is only ever the text of a    *)
(* round that asked for no tool call.                                     *)
(***************************************************************************)
\* no assistant-with-calls message of the sequence has "" as its content
NoEmptyCallsContent(seq) ==
    \A k \in 1..Len(seq) : IsCallsMsg(seq[k]) => seq[k].content # ""

\* the answer an assistant entry may hold: the content of the final message
\* of its sequence, "" when the sequence has none
AnswerOf(sequence) ==
    IF sequence # <<>> /\ IsFinalMsg(Last(sequence)) THEN Last(sequence).content ELSE ""

C30_CallsContent ==
    /\ [][(pc = "stream" /\ pc' = "tools") =>
              /\ turn_llm_sequence' =
                     Append(turn_llm_sequence,
                            AssistantCallsMsg(IF accumulated_text = "" THEN None
                                                                       ELSE accumulated_text,
                                              raw_tc_list(accumulated_tcs)))
              /\ llm_messages' = Append(llm_messages, Last(turn_llm_sequence'))
              /\ final_response_text' = final_response_text]_vars
    /\ [](NoEmptyCallsContent(turn_llm_sequence) /\ NoEmptyCallsContent(llm_messages))
    /\ [](pc \in {"round", "stream", "tools", "in_call"} => final_response_text = "")
    /\ [](pc = "persist" => final_response_text = AnswerOf(turn_llm_sequence))
    /\ [](\A cid \in DOMAIN conversations :
             \A k \in 1..Len(conversations[cid]) :
                 conversations[cid][k].role = "assistant" =>
                     /\ conversations[cid][k].content =
                            AnswerOf(conversations[cid][k].llm_sequence)
                     /\ NoEmptyCallsContent(conversations[cid][k].llm_sequence))

\* a turn that ran into the cap: its first round asked for a call without
\* text, its last round streamed "x" with its call, and its answer is empty
C30_Witness ==
    /\ pc = "persist"
    /\ round = MaxRounds
    /\ IsCallsMsg(turn_llm_sequence[1]) /\ turn_llm_sequence[1].content = None
    /\ \E k \in 1..Len(turn_llm_sequence) :
           IsCallsMsg(turn_llm_sequence[k]) /\ turn_llm_sequence[k].content = "x"
    /\ final_response_text = ""

(***************************************************************************)
(* Reconstruction over entries without a sequence.  The display history    *)
(* starts with a user entry and an assistant entry of the older shape: no  *)
(* _llm_sequence or an empty one, with or without _raw_tool_calls and      *)
(* tool_calls.  Turns are then started on it; a request that fails ends a  *)
(* turn with an empty sequence, which is stored as one more such entry.    *)
(***************************************************************************)
LegacyContents == {None, "", "x"}

LegacyRaw ==
    {<<>>,
     <<raw_tc([id |-> "a", name |-> "f", arguments |-> ""])>>,
     <<raw_tc([id |-> "a", name |-> "f", arguments |-> ""]),
       raw_tc([id |-> "b", name |-> "f", arguments |-> "{}"])>>}

LegacyRecord(id, text) ==
    [call_id |-> id, name |-> "f", arguments |-> EmptyArgs, result |-> text,
     is_error |-> FALSE]

LegacyRecords ==
    {<<>>,
     <<LegacyRecord("a", "r1")>>,
     <<LegacyRecord("b", "r2"), LegacyRecord("a", "r1")>>}

\* a key that is absent, or present with one of the values
OptionalKey(key, values) == {<<>>} \cup {key :> v : v \in values}

LegacyEntries ==
    {[role |-> "assistant", content |-> c] @@ raw @@ recs @@ sequence :
        c \in LegacyContents,
        raw \in OptionalKey("raw_tool_calls", LegacyRaw),
        recs \in OptionalKey("tool_calls", LegacyRecords),
        sequence \in OptionalKey("llm_sequence", {<<>>})}

InitLegacy ==
    /\ current_conv_id = FirstConvId
    /\ mcp_client = None
    /\ pending_prompt = None
    /\ \E dm \in LegacyEntries :
           conversations = (FirstConvId :> <<[role |-> "user", content |-> "q"], dm>>)
    /\ InitTurn
    /\ InitEnv
    /\ InitClient
    /\ InitServer

NextLegacy ==
    \/ \E p \in Prompts : SubmitPrompt(p)
    \/ CreateRaises
    \/ Persist

SpecLegacy == InitLegacy /\ [][NextLegacy]_vars

(***************************************************************************)
(* C31.  An assistant entry with no sequence, or an empty one, is replayed *)
(* as exactly one assistant message followed by exactly one tool message   *)
(* per recorded call, in recorded order, each with the record's call id    *)
(* and result.  The assistant message carries the stored content and, if   *)
(* the entry has raw tool calls, those calls; with calls and no text its   *)
(* content is None.                                                        *)
(***************************************************************************)
HasSequence(dm) == HasKey(dm, "llm_sequence") /\ dm.llm_sequence # <<>>

HasRawCalls(dm) == HasKey(dm, "raw_tool_calls") /\ dm.raw_tool_calls # <<>>

RecordsOf(dm) == IF HasKey(dm, "tool_calls") THEN dm.tool_calls ELSE <<>>

\* the number of messages an entry is replayed as
ReplaySize(dm) ==
    IF dm.role = "user" THEN 1
    ELSE IF HasSequence(dm) THEN Len(dm.llm_sequence)
         ELSE 1 + Len(RecordsOf(dm))

RECURSIVE ReplayOffset(_, _)
\* the number of messages the entries before entry i are replayed as
ReplayOffset(display, i) ==
    IF i <= 1 THEN 0 ELSE ReplayOffset(display, i - 1) + ReplaySize(display[i - 1])

C31_FallbackReplay ==
    pc # "idle" =>
        LET hist == ButLast(Disp)
            m == start_messages
            at(i) == 1 + ReplayOffset(hist, i)
        IN  /\ Len(m) = at(Len(hist) + 1) + 1
            /\ \A i \in 1..Len(hist) :
                  (hist[i].role = "assistant" /\ ~HasSequence(hist[i])) =>
                      LET dm == hist[i]
                          asst == m[at(i) + 1]
                      IN  /\ asst.role = "assistant"
                          /\ HasKey(asst, "tool_calls") <=> HasRawCalls(dm)
                          /\ HasRawCalls(dm) => asst.tool_calls = dm.raw_tool_calls
                          /\ Truthy(dm.content) => asst.content = dm.content
                          /\ (~Truthy(dm.content) /\ HasRawCalls(dm)) => asst.content = None
                          /\ (~Truthy(dm.content) /\ ~HasRawCalls(dm)) => asst.content = ""
                          /\ DOMAIN asst \subseteq {"role", "content", "tool_calls"}
                          /\ \A k \in 1..Len(RecordsOf(dm)) :
                                m[at(i) + 1 + k] =
                                    ToolMsg(RecordsOf(dm)[k].call_id, RecordsOf(dm)[k].result)

\* an entry with two raw calls, two records and no text is replayed ahead of
\* the new prompt
C31_Witness ==
    /\ pc = "round"
    /\ Len(Disp) = 3
    /\ ~HasKey(Disp[2], "llm_sequence")
    /\ HasRawCalls(Disp[2]) /\ Len(Disp[2].raw_tool_calls) = 2
    /\ Len(RecordsOf(Disp[2])) = 2
    /\ Disp[2].content = ""
    /\ Len(start_messages) = 6
    /\ start_messages[3].content = None
    /\ start_messages[4] = ToolMsg("b", "r2")

(***************************************************************************)
(* C32.  Within a turn the message list only grows: the list of a request  *)
(* is the list of the request before it followed by that round's           *)
(* assistant-with-calls message and its tool messages, and at every point  *)
(* of the turn the list is the reconstructed list followed by the sequence *)
(* captured so far.                                                        *)
(***************************************************************************)
InTurn == pc # "idle"

\* both lists only grow while the turn runs
GrowsOnly ==
    [][(InTurn /\ pc' # "idle") =>
           /\ IsPrefix(llm_messages, llm_messages')
           /\ IsPrefix(turn_llm_sequence, turn_llm_sequence')]_vars

\* at a request of round k the list is the reconstructed list followed by k
\* rounds, each an assistant-with-calls message with its tool messages
RequestList ==
    pc \in {"round", "stream"} =>
        /\ llm_messages = start_messages \o turn_llm_sequence
        /\ Cardinality(CallsPositions(turn_llm_sequence)) = round
        /\ WellPaired(turn_llm_sequence)
        /\ \A k \in 1..Len(turn_llm_sequence) :
              IsCallsMsg(turn_llm_sequence[k]) \/ IsToolMsg(turn_llm_sequence[k])

C32_AppendOnly ==
    /\ GrowsOnly
    /\ []RequestList
    /\ [](InTurn => llm_messages = start_messages \o turn_llm_sequence)

\* the sequence without the final assistant message, if it ends with one
WithoutFinal(seq) ==
    IF seq # <<>> /\ IsFinalMsg(Last(seq)) THEN ButLast(seq) ELSE seq

\* as corrected: the final assistant message is recorded in the sequence
\* only, so from then on the list is the reconstructed list followed by the
\* sequence without it
C32_AppendOnlyUntilFinal ==
    /\ GrowsOnly
    /\ []RequestList
    /\ [](pc \in {"round", "stream", "tools", "in_call"} =>
             /\ llm_messages = start_messages \o turn_llm_sequence
             /\ WithoutFinal(turn_llm_sequence) = turn_llm_sequence)
    /\ [](pc = "persist" =>
             llm_messages = start_messages \o WithoutFinal(turn_llm_sequence))

\* a turn answered after two rounds of one call each: the list grew by the
\* four messages of the rounds, the final message is in the sequence only
C32_Witness ==
    /\ pc = "persist"
    /\ round = 2
    /\ requests = 3
    /\ Len(turn_llm_sequence) = 5
    /\ IsFinalMsg(Last(turn_llm_sequence))
    /\ llm_messages = start_messages \o ButLast(turn_llm_sequence)

(***************************************************************************)
(* C33.  The tool-call records of a turn and the tool messages of its      *)
(* sequence correspond one to one, in order, across all rounds: the k-th   *)
(* record's call id and result are the k-th tool message's tool_call_id    *)
(* and content.                                                            *)
(***************************************************************************)
ToolMessagesOf(seq) == SelectSeq(seq, IsToolMsg)

RecordsMatch(records, seq) ==
    LET tool_msgs == ToolMessagesOf(seq)
    IN  /\ Len(records) = Len(tool_msgs)
        /\ \A k \in 1..Len(records) :
              /\ records[k].call_id = tool_msgs[k].tool_call_id
              /\ records[k].result = tool_msgs[k].content

C33_RecordsMatchResults ==
    /\ InTurn => RecordsMatch(collected_tool_calls, turn_llm_sequence)
    /\ \A cid \in DOMAIN conversations :
          \A i \in 1..Len(conversations[cid]) :
              conversations[cid][i].role = "assistant" =>
                  RecordsMatch(conversations[cid][i].tool_calls,
                               conversations[cid][i].llm_sequence)

\* a stored turn of two rounds and three calls, the first round with the
\* calls "a" and "b"
C33_Witness ==
    /\ pc = "idle"
    /\ Len(Disp) = 2
    /\ Disp[2].role = "assistant"
    /\ Len(Disp[2].tool_calls) = 3
    /\ Cardinality(CallsPositions(Disp[2].llm_sequence)) = 2
    /\ Disp[2].tool_calls[2].call_id = "b"
    /\ Len(ToolMessagesOf(Disp[2].llm_sequence)) = 3

(***************************************************************************)
(* C34.  A prompt, typed or queued by a suggestion chip, is consumed       *)
(* exactly once: it starts exactly one turn, it is one user entry of the   *)
(* display history, and in the message list built for its turn it is the   *)
(* last message and is not replayed with the history as well.              *)
(***************************************************************************)
UserEntries(display) == {i \in 1..Len(display) : display[i].role = "user"}

UserMessages(messages) == {k \in 1..Len(messages) : messages[k].role = "user"}

\* no user entry is directly followed by a copy of itself
NoRepeatedEntry(display) ==
    \A i \in 1..(Len(display) - 1) :
        display[i].role = "user" => display[i + 1] # display[i]

ConvIds == {FirstConvId, SecondConvId}

\* the store without one conversation
Without(convs, cid) == [c \in (DOMAIN convs) \ {cid} |-> convs[c]]

get_or_create_conversation(convs, conv_id) ==
    IF conv_id \in DOMAIN convs THEN convs ELSE convs @@ (conv_id :> <<>>)

\* variant: the current id is left as it is when its conversation is deleted
delete_conversation_keeps_current(convs, current, cid, next_id, new_id) ==
    [conversations |-> Without(convs, cid), current_conv_id |-> current]

\* the handler of a delete button; next_id is next(iter(conversations)) of
\* what is left, new_id the id make_conversation_id hands out
delete_conversation(convs, current, cid, next_id, new_id) ==
    LET rest == Without(convs, cid)
    IN  IF current # cid
        THEN [conversations |-> rest, current_conv_id |-> current]
        ELSE IF DOMAIN rest # {}
             THEN [conversations |-> rest, current_conv_id |-> next_id]
             ELSE [conversations |-> get_or_create_conversation(rest, new_id),
                   current_conv_id |-> new_id]

DeleteConversation(cid) ==
    /\ UNCHANGED <<serverVars, clientVars, received, startVars, pending_prompt>>
    /\ pending_prompt = None
    /\ pc = "idle"
    /\ cid \in DOMAIN conversations
    /\ \E next_id \in IF DOMAIN conversations = {cid}
                      THEN {None}
                      ELSE (DOMAIN conversations) \ {cid},
          new_id \in ConvIds :
           LET r == delete_conversation(conversations, current_conv_id, cid,
                                        next_id, new_id)
           IN  /\ conversations' = r.conversations
               /\ current_conv_id' = r.current_conv_id
    /\ UNCHANGED <<mcp_client, turnVars, envVars>>

NextStore ==
    \/ \E cid \in ConvIds : DeleteConversation(cid)
    \/ NextConv

SpecStore == Init /\ [][NextStore]_vars

(***************************************************************************)
(* C35.  Whatever the host does with its conversations (create, select,    *)
(* delete), the current conversation id names a conversation of the store. *)
(* Deleting the last conversation leaves one fresh, empty conversation,    *)
(* which is current; deleting a conversation while others exist removes    *)
(* that conversation and nothing of the others.                            *)
(***************************************************************************)
\* the step deletes conversation cid
Deletes(cid) ==
    /\ cid \in DOMAIN conversations
    /\ \/ cid \notin DOMAIN conversations'
       \/ DOMAIN conversations = {cid} /\ conversations[cid] # <<>>
                                       /\ conversations'[cid] = <<>>

C35_CurrentExists ==
    /\ [](current_conv_id \in DOMAIN conversations)
    /\ [][\A cid \in ConvIds :
              Deletes(cid) =>
                  IF DOMAIN conversations = {cid}
                  THEN /\ DOMAIN conversations' = {current_conv_id'}
                       /\ conversations'[current_conv_id'] = <<>>
                  ELSE /\ DOMAIN conversations' = (DOMAIN conversations) \ {cid}
                       /\ \A c \in DOMAIN conversations' :
                              conversations'[c] = conversations[c]]_vars
    /\ [][DOMAIN conversations \subseteq DOMAIN conversations' =>
              \A c \in DOMAIN conversations :
                  IsPrefix(conversations[c], conversations'[c])
                      \/ (DOMAIN conversations = {c} /\ conversations'[c] = <<>>)]_vars

\* the only conversation, which held a stored turn, was deleted and replaced
\* by an empty one, after a second conversation had been created and deleted
C35_Witness ==
    /\ pc = "idle"
    /\ turns_started = 2
    /\ DOMAIN conversations = {SecondConvId}
    /\ current_conv_id = SecondConvId
    /\ conversations[SecondConvId] = <<>>

(***************************************************************************)
(* C36.  Once shutdown() has returned and the background thread has        *)
(* exited, a call_tool runs no remote call and returns no tool result: it  *)
(* fails.  A call_tool that races with shutdown() ends, under every        *)
(* interleaving, with its result or with an error, and its caller is not   *)
(* held beyond its bounded wait.                                           *)
(***************************************************************************)
ShutDown == sd_pc = "returned" /\ bg_pc = "exited"

\* the ways call_tool raises
CallRaises ==
    {[raised |-> TRUE, value |-> "MCP client is not initialised."],
     [raised |-> TRUE, value |-> "Event loop is closed"]}

C36_CallsAfterShutdown ==
    /\ [][ShutDown => future' = future]_vars
    /\ [][ShutDown =>
              \A c \in Callers :
                  call_pc[c] \in {"idle", "submit"} =>
                      call_pc'[c] \in {"idle", "submit", "raised"}]_vars
    /\ [](\A c \in Callers :
             (ShutDown /\ call_pc[c] = "submit") => loop_state = "closed")
    /\ [](\A c \in Callers :
             /\ call_pc[c] = "returned" =>
                    /\ ~call_out[c].raised
                    /\ call_out[c].value \in OwnResults(c) \cup FailureResults
             /\ call_pc[c] = "raised" => call_out[c] \in CallRaises)
    /\ \A c \in Callers :
           (call_pc[c] \in {"submit", "waiting"}) ~> (call_pc[c] \in {"returned", "raised"})

\* shutdown() returned on a session that was ready and the thread exited
\* cleanly; the call of caller 2 raced with it and came back with its result,
\* the call of caller 1 was made afterwards and raised
C36_Witness ==
    /\ ShutDown
    /\ initialized /\ init_error = None /\ bg_exc = None
    /\ call_pc[2] = "returned" /\ call_out[2].value = "r_g"
    /\ call_pc[1] = "raised" /\ call_out[1].value = "Event loop is closed"
    /\ future[1].kind = "none"

(***************************************************************************)
(* The server process: get_segment_metrics (pathways_mcp/tools/metrics.py) *)
(* over a Strapi collection.  A metric is named by its position, counted   *)
(* from 0, in the full result of the filters; Strapi answers a request for *)
(* page p of size s with the positions (p-1)*s .. p*s-1 that exist.        *)
(***************************************************************************)
MaxSmall == 3
MaxOffset == 5
MaxTotal == 6

Min(a, b) == IF a <= b THEN a ELSE b

\* the limits, offsets and result sizes tried
Limits == 1..MaxSmall \cup {DefaultLimit, MaxLimit, MaxLimit + DefaultLimit}
Offsets == 0..MaxOffset \cup {DefaultLimit, MaxLimit, MaxLimit + DefaultLimit}
Totals == 0..MaxTotal \cup {MaxLimit + DefaultLimit + 1, 2 * MaxLimit + 1}

\* the "data" of the response to page, page_size over a result of total rows
StrapiPage(total, page, page_size) ==
    LET first == (page - 1) * page_size
        n == IF total - first <= 0 THEN 0 ELSE Min(page_size, total - first)
    IN  [k \in 1..n |-> first + k - 1]

\* limit = min(limit, 100); page = (offset // limit) + 1
requested_page(limit, offset) ==
    [page |-> (offset \div Min(limit, MaxLimit)) + 1,
     page_size |-> Min(limit, MaxLimit)]

\* the "metrics" of the output: one entry per row of the page, in order
get_segment_metrics(limit, offset, total) ==
    LET r == requested_page(limit, offset)
    IN  StrapiPage(total, r.page, r.page_size)

\* the tool is called
GmCall ==
    /\ gm_pc = "idle"
    /\ \E limit \in Limits, offset \in Offsets, total \in Totals :
           /\ gm_args' = [limit |-> limit, offset |-> offset]
           /\ gm_total' = total
    /\ gm_pc' = "called"
    /\ UNCHANGED <<gm_result, faVars, appVars, clientVars>>

\* the page is fetched and the output is built
GmReturn ==
    /\ gm_pc = "called"
    /\ gm_result' = get_segment_metrics(gm_args.limit, gm_args.offset, gm_total)
    /\ gm_pc' = "returned"
    /\ UNCHANGED <<gm_args, gm_total, faVars, appVars, clientVars>>

NextMetrics == GmCall \/ GmReturn

SpecMetrics == InitStandalone /\ [][NextMetrics]_vars

(***************************************************************************)
(* C37.  get_segment_metrics(limit, offset) returns at most                *)
(* min(limit, 100) metrics and skips exactly offset metrics: for every     *)
(* offset >= 0 and limit >= 1 the first metric returned is the one at      *)
(* position offset of the full filtered result.                            *)
(***************************************************************************)
AtMostLimit ==
    gm_pc = "returned" => Len(gm_result) <= Min(gm_args.limit, MaxLimit)

\* an offset that is a multiple of the clamped limit is honoured
AlignedOffsetHonoured ==
    (gm_pc = "returned" /\ gm_args.offset % Min(gm_args.limit, MaxLimit) = 0) =>
        gm_result = [k \in 1..Min(Min(gm_args.limit, MaxLimit),
                                  IF gm_total > gm_args.offset
                                  THEN gm_total - gm_args.offset ELSE 0)
                         |-> gm_args.offset + k - 1]

C37_LimitOffset ==
    (gm_pc = "returned" /\ gm_args.limit >= 1 /\ gm_args.offset >= 0) =>
        /\ Len(gm_result) <= Min(gm_args.limit, MaxLimit)
        /\ gm_args.offset < gm_total =>
               gm_result # <<>> /\ gm_result[1] = gm_args.offset
        /\ gm_args.offset >= gm_total => gm_result = <<>>

(***************************************************************************)
(* The server process: StrapiClient.fetch_all (pathways_mcp/api.py).  The  *)
(* Strapi server is an input: each response carries up to page_size rows,  *)
(* a total and a page count of its choosing, or the request fails.  A row  *)
(* is named by the page it came with and its place on that page.           *)
(***************************************************************************)
MaxPageSize == 2
MaxRecords == 3
MaxPages == 3
MaxRows == 4

\* the rows of one response
Rows(page, n) == [k \in 1..n |-> [page |-> page, k |-> k]]

\* variant: the page count is not looked at
fetch_done_by_count(page, page_count, collected, total, max_records) ==
    collected >= Min(total, max_records)

\* if page >= page_count or len(all_data) >= min(total, max_records): break
fetch_done(page, page_count, collected, total, max_records) ==
    page >= page_count \/ collected >= Min(total, max_records)

\* all_data[:max_records]
truncated(all_data, max_records) == SubSeq(all_data, 1, Min(Len(all_data), max_records))

\* fetch_all is called
FaCall ==
    /\ fa_pc = "idle"
    /\ \E page_size \in 1..MaxPageSize, max_records \in 1..MaxRecords :
           fa_args' = [page_size |-> page_size, max_records |-> max_records]
    /\ fa_page' = 1
    /\ fa_data' = <<>>
    /\ fa_pc' = "loop"
    /\ UNCHANGED <<fa_meta, fa_requests, fa_result, gmVars, appVars, clientVars>>

\* one iteration of the while loop on the response to the page asked for
FaFetch ==
    /\ fa_pc = "loop"
    /\ \E n \in 0..fa_args.page_size, total \in 0..MaxRows, page_count \in 0..MaxPages :
           LET all_data == fa_data \o Rows(fa_page, n)
               done == fetch_done(fa_page, page_count, Len(all_data), total,
                                  fa_args.max_records)
           IN  /\ fa_data' = all_data
               /\ fa_meta' = [total |-> total, page_count |-> page_count]
               /\ fa_page' = IF done THEN fa_page ELSE fa_page + 1
               /\ fa_pc' = IF done THEN "returned" ELSE "loop"
               /\ fa_result' = IF done THEN truncated(all_data, fa_args.max_records)
                                       ELSE fa_result
    /\ fa_requests' = fa_requests + 1
    /\ UNCHANGED <<fa_args, gmVars, appVars, clientVars>>

\* fetch_collection raises (403, 404, raise_for_status, timeout): so does
\* fetch_all
FaRaises ==
    /\ fa_pc = "loop"
    /\ fa_requests' = fa_requests + 1
    /\ fa_pc' = "raised"
    /\ UNCHANGED <<fa_args, fa_page, fa_data, fa_meta, fa_result, gmVars, appVars,
                   clientVars>>

NextFetchAll == FaCall \/ FaFetch \/ FaRaises

SpecFetchAll == InitStandalone /\ [][NextFetchAll]_vars

\* every request is answered or fails (the HTTP client has a 30 s timeout)
FairSpecFetchAll == SpecFetchAll /\ WF_vars(FaFetch \/ FaRaises)

(***************************************************************************)
(* C38.  fetch_all ends for every server that reports a finite page count. *)
(* It returns at most max_records rows, in page order.  It asks for no     *)
(* further page once the page count is reached or once the rows collected  *)
(* reach min(total, max_records).                                          *)
(***************************************************************************)
\* rows in the order of their pages, and within a page in the page's order
InPageOrder(rows) ==
    \A i, j \in 1..Len(rows) :
        i < j => \/ rows[i].page < rows[j].page
                 \/ rows[i].page = rows[j].page /\ rows[i].k < rows[j].k

C38_FetchAllEnds ==
    /\ (fa_pc = "loop") ~> (fa_pc \in {"returned", "raised"})
    /\ [](fa_requests <= MaxPages)
    /\ [](fa_pc = "returned" =>
             /\ Len(fa_result) <= fa_args.max_records
             /\ IsPrefix(fa_result, fa_data)
             /\ InPageOrder(fa_result))
    /\ [](fa_pc = "loop" => fa_page = fa_requests + 1)
    /\ [][(fa_requests' # fa_requests /\ fa_requests >= 1) =>
              /\ fa_requests' = fa_requests + 1
              /\ fa_page - 1 < fa_meta.page_count
              /\ Len(fa_data) < Min(fa_meta.total, fa_args.max_records)]_vars
    /\ [][(fa_pc \in {"returned", "raised"}) =>
              fa_pc' = fa_pc /\ fa_requests' = fa_requests /\ fa_result' = fa_result]_vars

\* three pages of two rows were fetched for max_records = 3: the loop went on
\* past the second page because the server reported more rows than it sent,
\* and the result was cut to three rows
C38_Witness ==
    /\ fa_pc = "returned"
    /\ fa_requests = 3
    /\ Len(fa_data) = 4
    /\ fa_args.max_records = 3
    /\ Len(fa_result) = 3
    /\ fa_result[3].page = 3

=============================================================================
